---- MODULE Spec2Model ----
(***************************************************************************)
(* Model of the folderwatch package (Service, folderRunner and the file    *)
(* stability prober / importer) of quill.                                  *)
(*                                                                         *)
(* Threads: thread 0 is the process bootstrap (Start / Stop); threads 1..  *)
(* are request goroutines calling the CRUD operations.  Every runner has a *)
(* run-loop goroutine, and every debounce timer is a task that turns into  *)
(* a goroutine executing processCandidate when it fires.  One action is    *)
(* one critical section (s.mu or r.mu), one storage call or one channel    *)
(* operation of the Go code.                                               *)
(***************************************************************************)
EXTENDS Integers, Sequences, FiniteSets, TLC

(***************************************************************************)
(* Bounds of the model.                                                    *)
(***************************************************************************)
MaxFolders == 2
MaxRunners == 2
MaxEvents == 3
MaxLifeEvents == 1
MaxErrors == 1

(***************************************************************************)
(* Program constants.                                                      *)
(***************************************************************************)
stabilityChecks == 3
minimumAudioBytes == 1

Users == {1, 2}
Bootstrap == 0
AllCallers == {1, 2}
Threads == {Bootstrap} \cup AllCallers

(***************************************************************************)
(* Maps with a key set that changes (Go maps, rows of a table).            *)
(***************************************************************************)
Put(f, k, v) == [x \in (DOMAIN f) \cup {k} |-> IF x = k THEN v ELSE f[x]]
Del(f, k) == [x \in (DOMAIN f) \ {k} |-> f[x]]
EmptyMap == [x \in {} |-> 0]

(***************************************************************************)
(* Paths.  A raw path is what the caller typed: optional surrounding       *)
(* white space, absolute or relative, and its segments.  A normalized path *)
(* is the sequence of segments of an absolute, cleaned path.               *)
(***************************************************************************)
Cwd == <<"w">>
Dirs == {<< >>, <<"w">>, <<"w", "a">>, <<"w", "b">>}
RegularFiles == {<<"w", "f">>}

RawPaths ==
  { [pad |-> FALSE, abs |-> TRUE,  segs |-> <<"w", "a">>],
    [pad |-> TRUE,  abs |-> TRUE,  segs |-> <<"w", "a">>],
    [pad |-> FALSE, abs |-> FALSE, segs |-> <<"a">>],
    [pad |-> FALSE, abs |-> TRUE,  segs |-> <<"w", "b", "..", "a">>],
    [pad |-> FALSE, abs |-> TRUE,  segs |-> <<"w", ".", "b">>],
    [pad |-> FALSE, abs |-> FALSE, segs |-> << >>],
    [pad |-> TRUE,  abs |-> FALSE, segs |-> << >>],
    [pad |-> FALSE, abs |-> TRUE,  segs |-> <<"w", "f">>],
    [pad |-> FALSE, abs |-> TRUE,  segs |-> <<"w", "zz">>] }

RECURSIVE Clean(_, _)
\* filepath.Clean on an absolute path: drops ".", resolves ".." (never above
\* the root).
Clean(segs, acc) ==
  IF segs = << >> THEN acc
  ELSE LET h == Head(segs)
       IN IF h = "." THEN Clean(Tail(segs), acc)
          ELSE IF h = ".."
               THEN Clean(Tail(segs),
                          IF acc = << >> THEN acc ELSE SubSeq(acc, 1, Len(acc) - 1))
               ELSE Clean(Tail(segs), Append(acc, h))

\* normalizeFolderPath: TrimSpace, reject the empty string, Abs, Clean, Stat.
normalizeFolderPath(raw) ==
  IF (~raw.abs) /\ raw.segs = << >>
  THEN [ok |-> FALSE, path |-> << >>]
  ELSE LET absPath == IF raw.abs THEN raw.segs ELSE Cwd \o raw.segs
           normalized == Clean(absPath, << >>)
       IN IF normalized \in Dirs
          THEN [ok |-> TRUE, path |-> normalized]
          ELSE [ok |-> FALSE, path |-> << >>]

(***************************************************************************)
(* Files seen by a runner.                                                 *)
(***************************************************************************)
\* strings.ToLower on the extensions used here
Lower ==
  [e \in {"mp3", "MP3", "Mp3", "wav", "flac", "FLAC", "m4a", "aac", "ogg", "wma",
          "aiff", "mp4", "mov", "mkv", "webm", "WebM", "avi", "AVI",
          "txt", "TXT", "jpg", "mp", "mp3x", "part", ""} |->
     IF e \in {"MP3", "Mp3"} THEN "mp3"
     ELSE IF e = "FLAC" THEN "flac"
     ELSE IF e = "WebM" THEN "webm"
     ELSE IF e = "AVI" THEN "avi"
     ELSE IF e = "TXT" THEN "txt"
     ELSE e]

WatchableExts ==
  {"mp3", "wav", "flac", "m4a", "aac", "ogg", "wma", "aiff",
   "mp4", "mov", "mkv", "webm", "avi"}

\* name of an event: stem, extension (without the dot) and whether os.Stat
\* reports a directory.
Names ==
  { [stem |-> "a", ext |-> "mp3", dir |-> FALSE],
    [stem |-> "n", ext |-> "txt", dir |-> FALSE],
    [stem |-> "sub", ext |-> "", dir |-> TRUE] }

Ops == {"Create", "Write", "Remove"}
FsEvents == [op : Ops, name : Names]

\* a filter that lets every name through
isWatchableAudioFile_Any(name) == TRUE

isWatchableAudioFile(name) == Lower[name.ext] \in WatchableExts

\* the events of the specification SpecFilter: every operation fsnotify
\* reports, on a regular file with each of the extensions above, and on
\* directories with and without a media extension
AllOps == {"Create", "Write", "Remove", "Rename", "Chmod"}
FilterNames ==
  {[stem |-> "a", ext |-> e, dir |-> FALSE] : e \in DOMAIN Lower}
    \cup {[stem |-> "sub", ext |-> e, dir |-> TRUE] : e \in {"", "mp3"}}
FilterEvents == [op : AllOps, name : FilterNames]

(***************************************************************************)
(* Stability prober.  A poll (os.Stat) finds the path gone, finds a        *)
(* directory, or reads a size and a modification time.                     *)
(***************************************************************************)
Sig(s, m) == [Size |-> s, ModUnix |-> m]
NoSig == Sig(-1, -1)

Obs(k, s, m) == [kind |-> k, Size |-> s, ModUnix |-> m]
Gone == Obs("gone", -1, -1)
IsDir == Obs("dir", 0, 0)

RECURSIVE StableLoop(_, _, _, _)
\* the loop of waitForStableFile from poll i on; prev is (prevSize,
\* prevModUnix), both -1 before the first poll.
StableLoop(polls, i, prev, stableReads) ==
  IF i > stabilityChecks + 2 \/ i > Len(polls)
  THEN [res |-> "timeout", sig |-> NoSig]
  ELSE LET o == polls[i]
           cur == Sig(o.Size, o.ModUnix)
       IN IF o.kind = "gone" THEN [res |-> "notexist", sig |-> NoSig]
          ELSE IF o.kind = "dir" THEN [res |-> "isdir", sig |-> NoSig]
          ELSE LET sr == IF cur = prev THEN stableReads + 1 ELSE 0
               IN IF sr >= stabilityChecks /\ o.Size >= minimumAudioBytes
                  THEN [res |-> "ok", sig |-> cur]
                  ELSE StableLoop(polls, i + 1, cur, sr)

\* a loop in which the first poll already counts as an unchanged read
waitForStableFile_FirstCounts(polls) ==
  StableLoop(polls, 1, Sig(polls[1].Size, polls[1].ModUnix), 0)

\* prevSize, prevModUnix = -1, -1; stableReads = 0
waitForStableFile(polls) == StableLoop(polls, 1, NoSig, 0)

F1 == Obs("file", 1, 1)
F2 == Obs("file", 2, 2)
Z0 == Obs("file", 0, 1)

\* poll sequences a file can show during one stability check
PollRuns ==
  { <<F1, F1, F1, F1, F1>>,
    <<F1, F2, F2, F2, F2>>,
    <<F1, F2, F1, F2, F1>>,
    <<F1, F1, F2, F2, F2>>,
    <<Z0, Z0, Z0, Z0, Z0>>,
    <<Gone, F1, F1, F1, F1>>,
    <<F1, F1, Gone, F1, F1>>,
    <<IsDir, IsDir, IsDir, IsDir, IsDir>> }

\* same size as F1, later modification time
F3 == Obs("file", 1, 2)

\* every run of six polls of a regular file that grows and shrinks (F1, F2),
\* is rewritten with the same size (F1, F3) or is empty and then written
\* (Z0, F1), and the runs above
ProbeRuns ==
  [1..(stabilityChecks + 3) -> {F1, F2}] \cup [1..(stabilityChecks + 3) -> {F1, F3}]
    \cup [1..(stabilityChecks + 3) -> {Z0, F1}] \cup PollRuns
    \cup {<<F1, F2, F1, F2, Gone, F1>>, <<F1, F1, F1, Gone, F1, F1>>}

\* the events and the poll sequences of the specification Spec, which is
\* about the folders' life cycle: writes to one media file, which stabilizes,
\* keeps changing or is removed
LifeEvents == {[op |-> "Write", name |-> [stem |-> "a", ext |-> "mp3", dir |-> FALSE]],
               [op |-> "Create", name |-> [stem |-> "sub", ext |-> "", dir |-> TRUE]]}
LifePolls == { <<F1, F1, F1, F1, F1>>,
               <<F1, F2, F1, F2, F1>>,
               <<Gone, F1, F1, F1, F1>> }

(***************************************************************************)
(* State.                                                                  *)
(***************************************************************************)
VARIABLES
  folders,    \* watched_folders table: id -> row
  nextId,     \* next primary key of the table
  runners,    \* Service.runners: folder id -> runner
  statuses,   \* Service.statuses: folder id -> runtimeStatus
  robj,       \* every folderRunner ever created (sequence, index = identity)
  tasks,      \* every debounce timer ever created (sequence, index = identity)
  jobs,       \* transcription_jobs rows created by importFile
  th,         \* the threads: program counter and locals
  svc,        \* bootstrap phase: "new", "started", "stopped"
  nev,        \* number of file-system events delivered so far
  nerr,       \* number of watcher errors delivered so far
  panicked,   \* a close of a closed channel happened
  deletedOK,  \* ids for which DeleteUserFolder has returned nil
  fs,         \* the watched directory tree and the kernel's event queue
  lk          \* Service.mu and the goroutines' positions relative to it

vars == <<folders, nextId, runners, statuses, robj, tasks, jobs, th, svc,
          nev, nerr, panicked, deletedOK, fs, lk>>

\* The directory tree under a watched folder.  tracked: whether the
\* specification follows the tree (otherwise any event can arrive at any
\* time); sub: the subdirectory exists; file: the media file exists in it;
\* watched: the watcher of the runner has a watch on the subdirectory; queue:
\* the events delivered to the watcher and not yet received by the run loop.
NoTree == [tracked |-> FALSE, sub |-> FALSE, file |-> FALSE, watched |-> FALSE,
           queue |-> << >>]
NewTree == [NoTree EXCEPT !.tracked = TRUE]

\* the empty path
NoFile == [stem |-> "", ext |-> "", dir |-> FALSE]

\* Service.mu is free and no goroutine is inside a method
NoLocks == [writers |-> {}, readers |-> {},
            run |-> [c \in Threads |-> [in |-> FALSE, code |-> << >>]]]

ZeroStatus == [Active |-> FALSE, LastRuntimeError |-> "",
               LastImportedAt |-> 0, LastImportedFile |-> NoFile]

\* s.statuses[id]: the zero value when the key is missing
StatusOf(st, id) == IF id \in DOMAIN st THEN st[id] ELSE ZeroStatus

NoView == [has |-> FALSE, Enabled |-> FALSE, Active |-> FALSE]

IdleThread ==
  [pc |-> "idle", op |-> "none", user |-> 0, fid |-> 0, en |-> FALSE,
   rec |-> FALSE, path |-> << >>, rid |-> 0, err |-> "", res |-> "none",
   ret |-> "", sret |-> "", list |-> << >>, fails |-> {}, noop |-> FALSE,
   view |-> NoView, views |-> << >>, after |-> "none"]

\* tables a fresh process can find on disk
InitTables ==
  { EmptyMap,
    (1 :> [ID |-> 1, UserID |-> 1, Path |-> <<"w", "a">>,
           Recursive |-> TRUE, Enabled |-> TRUE]),
    (1 :> [ID |-> 1, UserID |-> 1, Path |-> <<"w", "a">>,
           Recursive |-> FALSE, Enabled |-> FALSE]) }

\* the directory watched by the i-th folder of a restored table
BootPath(i) == IF i = 1 THEN <<"w", "a">> ELSE IF i = 2 THEN <<"w", "b">>
               ELSE IF i = 3 THEN <<"w">> ELSE << >>

\* tables with several folders of user 1, each enabled or disabled
BootTables ==
  { [i \in 1..MaxFolders |->
       [ID |-> i, UserID |-> 1, Path |-> BootPath(i),
        Recursive |-> FALSE, Enabled |-> i \in E]] : E \in SUBSET (1..MaxFolders) }

Init ==
  /\ folders \in InitTables
  /\ nextId = Cardinality(DOMAIN folders) + 1
  /\ runners = EmptyMap
  /\ statuses = EmptyMap
  /\ robj = << >>
  /\ tasks = << >>
  /\ jobs = << >>
  /\ th = [t \in Threads |-> IdleThread]
  /\ svc = "new"
  /\ nev = 0
  /\ nerr = 0
  /\ panicked = FALSE
  /\ deletedOK = {}
  /\ fs = NoTree
  /\ lk = NoLocks

\* tables with one folder of each user on the same directory, one of the two
\* enabled
ListTables ==
  { [i \in Users |->
       [ID |-> i, UserID |-> i, Path |-> <<"w", "a">>,
        Recursive |-> FALSE, Enabled |-> (i = e)]] : e \in Users }

\* a fresh process on a table with folders of two users
InitList ==
  /\ folders \in ListTables
  /\ nextId = Cardinality(Users) + 1
  /\ runners = EmptyMap
  /\ statuses = EmptyMap
  /\ robj = << >>
  /\ tasks = << >>
  /\ jobs = << >>
  /\ th = [t \in Threads |-> IdleThread]
  /\ svc = "new"
  /\ nev = 0
  /\ nerr = 0
  /\ panicked = FALSE
  /\ deletedOK = {}
  /\ fs = NoTree
  /\ lk = NoLocks

\* a fresh process on a table with several folders
\* the folder whose directory tree is followed
TreeFolder == 1

\* tables in which the followed folder is enabled, recursive or not
TreeTables ==
  { [i \in 1..MaxFolders |->
       [ID |-> i, UserID |-> 1, Path |-> BootPath(i),
        Recursive |-> IF i = TreeFolder THEN rec ELSE FALSE,
        Enabled |-> i = TreeFolder \/ i \in E]] :
    rec \in BOOLEAN, E \in SUBSET (1..MaxFolders) }

\* a restored service whose followed folder has an empty directory
InitTree ==
  /\ folders \in TreeTables
  /\ nextId = MaxFolders + 1
  /\ runners = EmptyMap
  /\ statuses = EmptyMap
  /\ robj = << >>
  /\ tasks = << >>
  /\ jobs = << >>
  /\ th = [t \in Threads |-> IdleThread]
  /\ svc = "new"
  /\ nev = 0
  /\ nerr = 0
  /\ panicked = FALSE
  /\ deletedOK = {}
  /\ fs = NewTree
  /\ lk = NoLocks

InitBoot ==
  /\ folders \in BootTables
  /\ nextId = MaxFolders + 1
  /\ runners = EmptyMap
  /\ statuses = EmptyMap
  /\ robj = << >>
  /\ tasks = << >>
  /\ jobs = << >>
  /\ th = [t \in Threads |-> IdleThread]
  /\ svc = "new"
  /\ nev = 0
  /\ nerr = 0
  /\ panicked = FALSE
  /\ deletedOK = {}
  /\ fs = NoTree
  /\ lk = NoLocks

(***************************************************************************)
(* Status store (Service.setStatus and its callers).                       *)
(***************************************************************************)
\* an error that is dropped instead of recorded
markRuntimeError_Drop(st, id, e) == st

\* markRuntimeError: setStatus(id, LastRuntimeError = err)
markRuntimeError(st, id, e) ==
  Put(st, id, [StatusOf(st, id) EXCEPT !.LastRuntimeError = e])

\* markImported: clears the error, records the time and the file
markImported(st, id, path, now) ==
  Put(st, id, [StatusOf(st, id) EXCEPT !.LastRuntimeError = "",
                                       !.LastImportedAt = now,
                                       !.LastImportedFile = path])

\* s.statuses[id].Active = a, creating the entry when it is missing
SetActive(st, id, a) == Put(st, id, [StatusOf(st, id) EXCEPT !.Active = a])

clearStatus(st, id) == Del(st, id)

(***************************************************************************)
(* folderRunner: run loop, event handling, debounce timers.                *)
(***************************************************************************)
NoEvent == [op |-> "none", name |-> [stem |-> "", ext |-> "", dir |-> FALSE]]

RunnerIds == 1..Len(robj)
TaskIds == 1..Len(tasks)

NewRunner(folder) ==
  [fid |-> folder.ID, user |-> folder.UserID, recursive |-> folder.Recursive,
   stopCh |-> FALSE, watcherOpen |-> TRUE, doneCh |-> FALSE,
   timers |-> EmptyMap, imported |-> EmptyMap,
   loop |-> "select", cur |-> NoEvent, stopRet |-> FALSE]

\* timer.Stop(): a timer that has not fired never fires; a fired one is not
\* affected
StopTimer(ts, t) ==
  IF ts[t].st = "pending" THEN [ts EXCEPT ![t].st = "cancelled"] ELSE ts

\* scheduleImport, timer side: stop the timer the map holds for the path,
\* then create the new one
ScheduleTasks(ts, r, path) ==
  LET stopped == IF path \in DOMAIN robj[r].timers
                 THEN StopTimer(ts, robj[r].timers[path])
                 ELSE ts
  IN Append(stopped, [rid |-> r, path |-> path, st |-> "pending",
                      sig |-> NoSig, late |-> FALSE, job |-> 0, err |-> "",
                      default |-> "none", profile |-> "none"])

\* scheduleImport, map side: r.timers[path] = the new timer
ScheduleTimers(timers, path, t) == Put(timers, path, t)

\* the tail of the timer callback: delete(r.timers, path)
DropTimer(timers, path, t) == Del(timers, path)

\* case event := <-r.watcher.Events
RunRecvEvent(r, e, limit) ==
  /\ robj[r].loop = "select"
  /\ robj[r].watcherOpen
  /\ nev < limit
  /\ robj' = [robj EXCEPT ![r].loop = "handle", ![r].cur = e]
  /\ nev' = nev + 1
  /\ UNCHANGED <<folders, nextId, runners, statuses, tasks, jobs, th, svc,
                 nerr, panicked, deletedOK, fs, lk>>

\* case err := <-r.watcher.Errors: the receive
RunRecvError(r) ==
  /\ robj[r].loop = "select"
  /\ robj[r].watcherOpen
  /\ nerr < MaxErrors
  /\ robj' = [robj EXCEPT ![r].loop = "error"]
  /\ nerr' = nerr + 1
  /\ UNCHANGED <<folders, nextId, runners, statuses, tasks, jobs, th, svc,
                 nev, panicked, deletedOK, fs, lk>>

\* r.service.markRuntimeError(r.folder.ID, "watcher error: ..."), after the
\* receive; the loop goes back to its select
RunMarkError(r) ==
  /\ robj[r].loop = "error"
  /\ statuses' = markRuntimeError(statuses, robj[r].fid, "watcher error")
  /\ robj' = [robj EXCEPT ![r].loop = "select"]
  /\ UNCHANGED <<folders, nextId, runners, tasks, jobs, th, svc,
                 nev, nerr, panicked, deletedOK, fs, lk>>

\* case <-r.stopCh, or a closed Events / Errors channel: the loop returns and
\* the deferred close(r.doneCh) runs
RunExit(r) ==
  /\ robj[r].loop = "select"
  /\ robj[r].stopCh \/ ~robj[r].watcherOpen
  /\ robj' = [robj EXCEPT ![r].loop = "exited", ![r].doneCh = TRUE]
  /\ UNCHANGED <<folders, nextId, runners, statuses, tasks, jobs, th, svc,
                 nev, nerr, panicked, deletedOK, fs, lk>>

\* what handleEvent does with an event
EventKind(recursive, e) ==
  IF e.op = "Create" /\ e.name.dir /\ recursive THEN "addwatch"
  ELSE IF e.op \notin {"Create", "Write"} THEN "ignore"
  ELSE IF ~isWatchableAudioFile(e.name) THEN "ignore"
  ELSE "schedule"

\* addWatchedPath(event.Name) succeeded: the watcher has a watch on the new
\* subdirectory.  The walk below the subdirectory adds watches on the
\* directories it finds and does nothing with the files it finds.
addWatchedPath(tree, r) ==
  IF tree.tracked /\ robj[r].fid = TreeFolder
  THEN [tree EXCEPT !.watched = TRUE] ELSE tree

\* handleEvent; ok: whether watcher.Add succeeds, if the handler calls it
handleEvent_Add(r, ok) ==
  /\ robj[r].loop = "handle"
  /\ LET e == robj[r].cur
         k == EventKind(robj[r].recursive, e)
     IN \/ /\ k = "addwatch"
           /\ ok => robj[r].watcherOpen
           /\ statuses' = IF ok THEN statuses
                          ELSE markRuntimeError(statuses, robj[r].fid,
                                                "failed to watch")
           /\ fs' = IF ok THEN addWatchedPath(fs, r) ELSE fs
           /\ robj' = [robj EXCEPT ![r].loop = "select", ![r].cur = NoEvent]
           /\ UNCHANGED tasks
        \/ /\ k = "ignore"
           /\ robj' = [robj EXCEPT ![r].loop = "select", ![r].cur = NoEvent]
           /\ UNCHANGED <<tasks, statuses, fs>>
        \/ /\ k = "schedule"
           /\ tasks' = ScheduleTasks(tasks, r, e.name)
           /\ robj' = [robj EXCEPT
                         ![r].loop = "select", ![r].cur = NoEvent,
                         ![r].timers = ScheduleTimers(@, e.name, Len(tasks) + 1)]
           /\ UNCHANGED <<statuses, fs>>
  /\ UNCHANGED <<folders, nextId, runners, jobs, th, svc, nev, nerr,
                 panicked, deletedOK, lk>>

handleEvent(r) == \E ok \in BOOLEAN : handleEvent_Add(r, ok)

\* the debounce delay has elapsed: the callback starts processCandidate
TimerFire(t) ==
  /\ tasks[t].st = "pending"
  /\ tasks' = [tasks EXCEPT ![t].st = "stabilizing",
                            ![t].late = robj[tasks[t].rid].stopRet]
  /\ UNCHANGED <<folders, nextId, runners, statuses, robj, jobs, th, svc,
                 nev, nerr, panicked, deletedOK, fs, lk>>

wasImported(imported, path, sig) ==
  path \in DOMAIN imported /\ imported[path] = sig

recordImported(imported, path, sig) == Put(imported, path, sig)

\* a test that lets every failure of the stability check through
IsRuntimeError_Every(w) == w.res # "ok"

\* err != nil && !errors.Is(err, os.ErrNotExist)
IsRuntimeError(w) == w.res \in {"timeout", "isdir"}

\* processCandidate up to the call of importFile, once waitForStableFile has
\* returned w: the error branches and the duplicate check.  A failure of the
\* check is recorded next ("failed"); a file that is gone or already imported
\* makes processCandidate return to the tail of the callback ("tail").
processCandidate_With(t, w) ==
  /\ tasks[t].st = "stabilizing"
  /\ LET r == tasks[t].rid
         p == tasks[t].path
         goOn == w.res = "ok" /\ ~wasImported(robj[r].imported, p, w.sig)
     IN tasks' = [tasks EXCEPT
                    ![t].st = IF goOn THEN "importing"
                              ELSE IF IsRuntimeError(w) THEN "failed"
                              ELSE "tail",
                    ![t].err = IF ~IsRuntimeError(w) THEN ""
                               ELSE IF w.res = "timeout"
                               THEN "did not stabilize"
                               ELSE "cannot import directory",
                    ![t].sig = IF goOn THEN w.sig ELSE NoSig]
  /\ UNCHANGED <<folders, nextId, runners, statuses, robj, jobs, th, svc, nev,
                 nerr, panicked, deletedOK, fs, lk>>

\* signature, err := waitForStableFile(path) on one of the poll runs, and the
\* rest of processCandidate up to the call of importFile
processCandidate(t, runs) ==
  \E polls \in runs : processCandidate_With(t, waitForStableFile(polls))

\* r.service.markRuntimeError(r.folder.ID, err); return
PC_MarkError(t) ==
  /\ tasks[t].st = "failed"
  /\ statuses' = markRuntimeError(statuses, robj[tasks[t].rid].fid,
                                  tasks[t].err)
  /\ tasks' = [tasks EXCEPT ![t].st = "tail", ![t].err = "", ![t].sig = NoSig]
  /\ UNCHANGED <<folders, nextId, runners, robj, jobs, th, svc, nev, nerr,
                 panicked, deletedOK, fs, lk>>

\* a processCandidate that does not record the signature
PC_Record_Skip(t) ==
  /\ tasks[t].st = "record"
  /\ tasks' = [tasks EXCEPT ![t].st = "mark"]
  /\ UNCHANGED <<folders, nextId, runners, statuses, robj, jobs, th, svc, nev,
                 nerr, panicked, deletedOK, fs, lk>>

\* r.recordImported(path, signature), under r.mu
PC_Record(t) ==
  /\ tasks[t].st = "record"
  /\ robj' = [robj EXCEPT ![tasks[t].rid].imported =
                 recordImported(@, tasks[t].path, tasks[t].sig)]
  /\ tasks' = [tasks EXCEPT ![t].st = "mark"]
  /\ UNCHANGED <<folders, nextId, runners, statuses, jobs, th, svc, nev, nerr,
                 panicked, deletedOK, fs, lk>>

\* r.service.markImported(r.folder.ID, path), under s.mu; the time is the
\* number of jobs created so far
PC_Mark(t) ==
  /\ tasks[t].st = "mark"
  /\ statuses' = markImported(statuses, robj[tasks[t].rid].fid, tasks[t].path,
                              Len(jobs))
  /\ tasks' = [tasks EXCEPT ![t].st = "tail", ![t].sig = NoSig]
  /\ UNCHANGED <<folders, nextId, runners, robj, jobs, th, svc, nev, nerr,
                 panicked, deletedOK, fs, lk>>

\* the tail of the timer callback, under r.mu: delete(r.timers, path)
TimerTail(t) ==
  /\ tasks[t].st = "tail"
  /\ robj' = [robj EXCEPT ![tasks[t].rid].timers =
                 DropTimer(@, tasks[t].path, t)]
  /\ tasks' = [tasks EXCEPT ![t].st = "done"]
  /\ UNCHANGED <<folders, nextId, runners, statuses, jobs, th, svc, nev, nerr,
                 panicked, deletedOK, fs, lk>>

\* filepath.Base(sourcePath): the last element of the path, name and
\* extension
Base(p) == <<p.stem, p.ext>>

\* Transcription profiles: the user's default, the system default, the first
\* of the list.  Each has its own parameters.
NoProfile == "none"
NoParams == [Profile |-> NoProfile, Diarize |-> FALSE]
ProfileParams(pr) == [Profile |-> pr, Diarize |-> pr = "S"]

\* What the collaborators answer during one import.  fail: the step of
\* importFile that fails (os.Stat, copyFile, jobRepo.Create) or "none";
\* user: userRepo.FindByID fails ("err") or returns a user with
\* auto-transcription off or on; default: the user's DefaultProfileID; fetch:
\* profileRepo.FindByID finds it; sys: profileRepo.FindDefault; list, listErr:
\* profileRepo.List(0, 1); upd: jobRepo.Update of the pending job succeeds;
\* revert: jobRepo.Update of the reverted job succeeds.
ImportEnvs ==
  [fail : {"none", "stat", "copy", "create"},
   user : {"err", "off", "on"},
   default : {NoProfile, "U"},
   fetch : BOOLEAN,
   sys : {NoProfile, "S"},
   list : {<< >>, <<"L">>},
   listErr : BOOLEAN,
   upd : BOOLEAN,
   revert : BOOLEAN]

\* imports for a user without auto-transcription: the copy fails or the
\* import succeeds
PlainImports ==
  {env \in ImportEnvs :
     /\ env.fail \in {"none", "copy"}
     /\ env.user = "off" /\ env.default = NoProfile /\ ~env.fetch
     /\ env.sys = NoProfile /\ env.list = << >> /\ ~env.listErr
     /\ env.upd /\ env.revert}

\* imports for a user whose default profile can be fetched
QueueImports ==
  {env \in ImportEnvs :
     /\ env.default = "U" /\ env.fetch
     /\ env.sys = NoProfile /\ env.list = << >> /\ ~env.listErr}

\* The answers by call: a step of importFile or maybeQueueAutoTranscription
\* reads only the answer of the collaborator it calls, so each set varies
\* that answer and fixes the others.
OtherAnswers ==
  [fail |-> "none", user |-> "on", default |-> NoProfile, fetch |-> FALSE,
   sys |-> NoProfile, list |-> << >>, listErr |-> FALSE, upd |-> TRUE,
   revert |-> TRUE]

FailAnswers ==
  {[OtherAnswers EXCEPT !.fail = f] : f \in {"none", "stat", "copy", "create"}}

UserAnswers ==
  {[OtherAnswers EXCEPT !.user = u, !.default = d] :
     u \in {"err", "off", "on"}, d \in {NoProfile, "U"}}

FetchAnswers == {[OtherAnswers EXCEPT !.fetch = b] : b \in BOOLEAN}

SysAnswers == {[OtherAnswers EXCEPT !.sys = pr] : pr \in {NoProfile, "S"}}

ListAnswers ==
  {[OtherAnswers EXCEPT !.list = l, !.listErr = b] :
     l \in {<< >>, <<"L">>}, b \in BOOLEAN}

UpdateAnswers == {[OtherAnswers EXCEPT !.upd = b] : b \in BOOLEAN}

RevertAnswers == {[OtherAnswers EXCEPT !.revert = b] : b \in BOOLEAN}

\* the job record of importFile; calls and queued are the job queue's side:
\* the number of EnqueueJob(job.ID) calls and whether one was accepted
NewJob(r, p, sig) ==
  [ID |-> Len(jobs) + 1, rid |-> r, UserID |-> robj[r].user,
   fid |-> robj[r].fid, src |-> p, sig |-> sig,
   Status |-> "uploaded", Title |-> Base(p),
   Parameters |-> NoParams, Diarization |-> FALSE,
   calls |-> 0, queued |-> FALSE]

\* jobRepo.Update(job): the row is replaced, or left as it is on failure
JobUpdate(row, job, ok) == IF ok THEN job ELSE row

\* job.Parameters = profile.Parameters; job.Diarization = ...Diarize;
\* job.Status = StatusPending
Pending(job, pr) ==
  [job EXCEPT !.Parameters = ProfileParams(pr),
              !.Diarization = ProfileParams(pr).Diarize,
              !.Status = "pending"]

\* importFile up to the call of maybeQueueAutoTranscription: os.Stat, MkdirAll
\* and copyFile, which touch files only, and jobRepo.Create, which stores the
\* job as uploaded and without parameters.  A failure is recorded next
\* ("failed"); otherwise the callback goes on inside
\* maybeQueueAutoTranscription ("user").
importFile(t, envs) ==
  /\ tasks[t].st = "importing"
  /\ LET r == tasks[t].rid
         p == tasks[t].path
     IN \E env \in envs :
          IF env.fail # "none"
          THEN /\ tasks' = [tasks EXCEPT ![t].st = "failed",
                                         ![t].err = "import failed"]
               /\ UNCHANGED jobs
          ELSE /\ jobs' = Append(jobs, NewJob(r, p, tasks[t].sig))
               /\ tasks' = [tasks EXCEPT ![t].st = "user",
                                         ![t].job = Len(jobs) + 1]
  /\ UNCHANGED <<folders, nextId, runners, statuses, robj, th, svc, nev, nerr,
                 panicked, deletedOK, fs, lk>>

\* a lookup that does not ask whether the user wants auto-transcription
MQ_FindUser_AnyUser(t, envs) ==
  /\ tasks[t].st = "user"
  /\ \E env \in envs :
       tasks' = [tasks EXCEPT
                   ![t].st = IF env.user = "err" THEN "record"
                             ELSE IF env.default # NoProfile THEN "byid"
                             ELSE "sysdefault",
                   ![t].default = IF env.user # "err" THEN env.default
                                  ELSE NoProfile]
  /\ UNCHANGED <<folders, nextId, runners, statuses, robj, jobs, th, svc, nev,
                 nerr, panicked, deletedOK, fs, lk>>

\* user, err := s.userRepo.FindByID(userID): maybeQueueAutoTranscription
\* returns when the lookup fails or auto-transcription is off; otherwise it
\* goes on with user.DefaultProfileID
MQ_FindUser(t, envs) ==
  /\ tasks[t].st = "user"
  /\ \E env \in envs :
       tasks' = [tasks EXCEPT
                   ![t].st = IF env.user # "on" THEN "record"
                             ELSE IF env.default # NoProfile THEN "byid"
                             ELSE "sysdefault",
                   ![t].default = IF env.user = "on" THEN env.default
                                  ELSE NoProfile]
  /\ UNCHANGED <<folders, nextId, runners, statuses, robj, jobs, th, svc, nev,
                 nerr, panicked, deletedOK, fs, lk>>

\* a lookup whose result is dropped, so that the system default is taken
MQ_FindByID_Dropped(t, envs) ==
  /\ tasks[t].st = "byid"
  /\ \E env \in envs :
       tasks' = [tasks EXCEPT ![t].st = "sysdefault",
                              ![t].default = NoProfile]
  /\ UNCHANGED <<folders, nextId, runners, statuses, robj, jobs, th, svc, nev,
                 nerr, panicked, deletedOK, fs, lk>>

\* profile, _ = s.profileRepo.FindByID(*user.DefaultProfileID): the user's
\* default profile, or nil
MQ_FindByID(t, envs) ==
  /\ tasks[t].st = "byid"
  /\ \E env \in envs :
       tasks' = [tasks EXCEPT
                   ![t].st = IF env.fetch THEN "update" ELSE "sysdefault",
                   ![t].profile = IF env.fetch THEN tasks[t].default
                                  ELSE NoProfile,
                   ![t].default = NoProfile]
  /\ UNCHANGED <<folders, nextId, runners, statuses, robj, jobs, th, svc, nev,
                 nerr, panicked, deletedOK, fs, lk>>

\* profile, _ = s.profileRepo.FindDefault(): the system default, or nil
MQ_FindDefault(t, envs) ==
  /\ tasks[t].st = "sysdefault"
  /\ \E env \in envs :
       tasks' = [tasks EXCEPT
                   ![t].st = IF env.sys # NoProfile THEN "update" ELSE "list",
                   ![t].profile = env.sys]
  /\ UNCHANGED <<folders, nextId, runners, statuses, robj, jobs, th, svc, nev,
                 nerr, panicked, deletedOK, fs, lk>>

\* profiles, _, listErr := s.profileRepo.List(0, 1): the first profile of the
\* list; with no profile maybeQueueAutoTranscription returns
MQ_List(t, envs) ==
  /\ tasks[t].st = "list"
  /\ \E env \in envs :
       LET found == ~env.listErr /\ Len(env.list) > 0
       IN tasks' = [tasks EXCEPT
                      ![t].st = IF found THEN "update" ELSE "record",
                      ![t].profile = IF found THEN env.list[1] ELSE NoProfile]
  /\ UNCHANGED <<folders, nextId, runners, statuses, robj, jobs, th, svc, nev,
                 nerr, panicked, deletedOK, fs, lk>>

\* the job takes the parameters of the profile and the status pending, and
\* s.jobRepo.Update(job) stores it or fails
MQ_Update(t, envs) ==
  /\ tasks[t].st = "update"
  /\ \E env \in envs :
       LET row == jobs[tasks[t].job]
       IN /\ jobs' = [jobs EXCEPT ![tasks[t].job] =
                        JobUpdate(row, Pending(row, tasks[t].profile), env.upd)]
          /\ tasks' = [tasks EXCEPT
                         ![t].st = IF env.upd THEN "enqueue" ELSE "updrevert",
                         ![t].profile = IF env.upd THEN NoProfile
                                        ELSE tasks[t].profile]
  /\ UNCHANGED <<folders, nextId, runners, statuses, robj, th, svc, nev, nerr,
                 panicked, deletedOK, fs, lk>>

\* after a failed update: job.Status = uploaded; _ = s.jobRepo.Update(job),
\* whose error is dropped; the job keeps the parameters of the profile
MQ_Revert(t, envs) ==
  /\ tasks[t].st = "updrevert"
  /\ \E env \in envs :
       LET row == jobs[tasks[t].job]
           job == [Pending(row, tasks[t].profile) EXCEPT !.Status = "uploaded"]
       IN jobs' = [jobs EXCEPT ![tasks[t].job] =
                     JobUpdate(row, job, env.revert)]
  /\ tasks' = [tasks EXCEPT ![t].st = "record", ![t].profile = NoProfile]
  /\ UNCHANGED <<folders, nextId, runners, statuses, robj, th, svc, nev, nerr,
                 panicked, deletedOK, fs, lk>>

\* s.taskQueue.EnqueueJob(job.ID): the queue accepts the job or refuses it
EnqueueJob(t) ==
  /\ tasks[t].st = "enqueue"
  /\ \E ok \in BOOLEAN :
       /\ jobs' = [jobs EXCEPT ![tasks[t].job] =
                     [@ EXCEPT !.calls = @ + 1, !.queued = ok]]
       /\ tasks' = [tasks EXCEPT ![t].st = IF ok THEN "record" ELSE "revert"]
  /\ UNCHANGED <<folders, nextId, runners, statuses, robj, th, svc, nev, nerr,
                 panicked, deletedOK, fs, lk>>

\* after a refused EnqueueJob: job.Status = uploaded; _ = s.jobRepo.Update(job),
\* whose error is dropped
EnqueueJob_Revert(t) ==
  /\ tasks[t].st = "revert"
  /\ \E revert \in BOOLEAN :
       LET row == jobs[tasks[t].job]
       IN jobs' = [jobs EXCEPT ![tasks[t].job] =
                     JobUpdate(row, [row EXCEPT !.Status = "uploaded"], revert)]
  /\ tasks' = [tasks EXCEPT ![t].st = "record"]
  /\ UNCHANGED <<folders, nextId, runners, statuses, robj, th, svc, nev, nerr,
                 panicked, deletedOK, fs, lk>>

\* the positions of a callback inside maybeQueueAutoTranscription
QueueStages ==
  {"user", "byid", "sysdefault", "list", "update", "updrevert", "enqueue",
   "revert"}

(***************************************************************************)
(* The directory tree of folder TreeFolder and the events the kernel       *)
(* delivers for it.  The root of the folder is watched from runner.start   *)
(* on; a subdirectory is watched from the watcher.Add of addWatchedPath on;*)
(* a change in a directory produces an event only if the directory is      *)
(* watched when the change happens.                                        *)
(***************************************************************************)
SubDir == [stem |-> "sub", ext |-> "", dir |-> TRUE]
SubFile == [stem |-> "a", ext |-> "mp3", dir |-> FALSE]

\* a runner of the folder has its watch attached: from runner.start() to
\* watcher.Close(), registered or not
Watching(id) ==
  \E r \in RunnerIds : robj[r].fid = id /\ robj[r].watcherOpen

\* somebody creates the subdirectory in the watched root
MkSubdir ==
  /\ fs.tracked
  /\ ~fs.sub
  /\ Watching(TreeFolder)
  /\ fs' = [fs EXCEPT !.sub = TRUE,
                      !.queue = Append(@, [op |-> "Create", name |-> SubDir])]
  /\ UNCHANGED <<folders, nextId, runners, statuses, robj, tasks, jobs, th,
                 svc, nev, nerr, panicked, deletedOK, lk>>

\* somebody moves a complete media file into the subdirectory
DropFile ==
  /\ fs.tracked
  /\ fs.sub
  /\ ~fs.file
  /\ fs' = [fs EXCEPT !.file = TRUE,
                      !.queue = IF fs.watched
                                THEN Append(@, [op |-> "Create",
                                                name |-> SubFile])
                                ELSE @]
  /\ UNCHANGED <<folders, nextId, runners, statuses, robj, tasks, jobs, th,
                 svc, nev, nerr, panicked, deletedOK, lk>>

\* case event := <-r.watcher.Events, for the events of the followed tree
RunRecvQueued(r) ==
  /\ robj[r].loop = "select"
  /\ robj[r].watcherOpen
  /\ robj[r].fid = TreeFolder
  /\ fs.queue # << >>
  /\ robj' = [robj EXCEPT ![r].loop = "handle", ![r].cur = Head(fs.queue)]
  /\ fs' = [fs EXCEPT !.queue = Tail(@)]
  /\ UNCHANGED <<folders, nextId, runners, statuses, tasks, jobs, th, svc,
                 nev, nerr, panicked, deletedOK, lk>>

(***************************************************************************)
(* Folder storage (WatchedFolderRepository).                               *)
(***************************************************************************)
\* FindByUserAndID without the owner in the WHERE clause
FindByUserAndID_AnyOwner(tbl, user, id) ==
  {tbl[i] : i \in {j \in DOMAIN tbl : j = id}}

\* rows with this id and owner (at most one)
FindByUserAndID(tbl, user, id) ==
  {tbl[i] : i \in {j \in DOMAIN tbl : j = id /\ tbl[j].UserID = user}}

\* FindByUserAndPath without the owner in the WHERE clause
FindByUserAndPath_AnyOwner(tbl, user, path) ==
  {tbl[i] : i \in {j \in DOMAIN tbl : tbl[j].Path = path}}

\* rows with this owner and path
FindByUserAndPath(tbl, user, path) ==
  {tbl[i] : i \in {j \in DOMAIN tbl : tbl[j].UserID = user /\ tbl[j].Path = path}}

RECURSIVE Ascending(_)
\* the elements of a set of numbers in ascending order
Ascending(S) ==
  IF S = {} THEN << >>
  ELSE LET m == CHOOSE x \in S : \A y \in S : x <= y
       IN <<m>> \o Ascending(S \ {m})

RECURSIVE RowsOf(_, _)
RowsOf(tbl, ids) ==
  IF ids = << >> THEN << >> ELSE <<tbl[Head(ids)]>> \o RowsOf(tbl, Tail(ids))

\* FindEnabled that returns the first enabled row only
FindEnabled_First(tbl) ==
  LET ids == Ascending({i \in DOMAIN tbl : tbl[i].Enabled})
  IN IF ids = << >> THEN << >> ELSE <<tbl[Head(ids)]>>

\* enabled rows, ORDER BY id ASC
FindEnabled(tbl) ==
  RowsOf(tbl, Ascending({i \in DOMAIN tbl : tbl[i].Enabled}))

\* the order of two path strings: segment by segment, a prefix first
SegRank == [x \in {"a", "b", "w"} |-> IF x = "a" THEN 1 ELSE IF x = "b" THEN 2 ELSE 3]

RECURSIVE PathBefore(_, _)
PathBefore(p, q) ==
  IF p = << >> THEN q # << >>
  ELSE IF q = << >> THEN FALSE
  ELSE IF Head(p) = Head(q) THEN PathBefore(Tail(p), Tail(q))
  ELSE SegRank[Head(p)] < SegRank[Head(q)]

RECURSIVE ByPath(_, _)
\* the rows with ids in S, ORDER BY path ASC (ties by id)
ByPath(tbl, S) ==
  IF S = {} THEN << >>
  ELSE LET m == CHOOSE x \in S :
                  \A y \in S : \/ PathBefore(tbl[x].Path, tbl[y].Path)
                                \/ (tbl[x].Path = tbl[y].Path /\ x <= y)
       IN <<tbl[m]>> \o ByPath(tbl, S \ {m})

\* the rows of a user, ORDER BY path ASC
FindByUser(tbl, user) ==
  ByPath(tbl, {i \in DOMAIN tbl : tbl[i].UserID = user})

\* the unique index idx_watched_folders_user_path
UniqueViolation(tbl, user, path) ==
  \E i \in DOMAIN tbl : tbl[i].UserID = user /\ tbl[i].Path = path

\* a column that keeps the value it is given
ColumnDefault_Kept(v) == v

\* a boolean column declared with gorm:"default:true": on insert the zero
\* value (false) counts as not set, the default is written to the row and back
\* into the struct
ColumnDefault(v) == IF v THEN v ELSE TRUE

\* folderRepo.Create(ctx, &folder)
RepoCreate(tbl, id, user, path, rec, en) ==
  Put(tbl, id, [ID |-> id, UserID |-> user, Path |-> path,
                Recursive |-> ColumnDefault(rec), Enabled |-> ColumnDefault(en)])

RepoUpdate(tbl, id, en) ==
  IF id \in DOMAIN tbl THEN [tbl EXCEPT ![id].Enabled = en] ELSE tbl

RepoDelete(tbl, id) == Del(tbl, id)

(***************************************************************************)
(* Threads.                                                                *)
(***************************************************************************)
\* the operation of thread c returns res
Return(c, res) ==
  [IdleThread EXCEPT !.op = th[c].op, !.fid = th[c].fid, !.en = th[c].en,
                     !.noop = th[c].noop, !.res = res]

\* where startRunner returns to: caller "cr" is CreateUserFolder, "se" is
\* SetUserFolderEnabled, "st" is Start
AfterStart(ret, err) ==
  IF ret = "cr" THEN (IF err = "" THEN "cr_view" ELSE "cr_rollback")
  ELSE IF ret = "se" THEN (IF err = "" THEN "se_view" ELSE "se_revert")
  ELSE "st_next"

\* CreateUserFolder rows being inserted by other threads (bounds the table)
Creating == Cardinality({c \in Threads : th[c].pc = "cr_create"})

(***************************************************************************)
(* Service.startRunner                                                     *)
(***************************************************************************)
\* first critical section: a registered runner only refreshes Active
SR_Check(c) ==
  /\ th[c].pc = "sr_check"
  /\ IF th[c].fid \in DOMAIN runners
     THEN /\ statuses' = SetActive(statuses, th[c].fid, TRUE)
          /\ th' = [th EXCEPT ![c].pc = AfterStart(th[c].ret, ""), ![c].err = ""]
     ELSE /\ th' = [th EXCEPT ![c].pc = "sr_start"]
          /\ UNCHANGED statuses
  /\ UNCHANGED <<folders, nextId, runners, robj, tasks, jobs, svc, nev, nerr,
                 panicked, deletedOK, fs, lk>>

\* status written when runner.start() fails
StartFailed(st, id) ==
  Put(st, id, [StatusOf(st, id) EXCEPT !.Active = FALSE,
                                       !.LastRuntimeError = "start failed"])

\* runner.start(): attach the watch and start the run loop, or fail
SR_Start(c) ==
  /\ th[c].pc = "sr_start"
  /\ \E ok \in BOOLEAN :
       /\ ok => Len(robj) < MaxRunners
       /\ IF ok
          THEN /\ robj' = Append(robj, NewRunner([ID |-> th[c].fid,
                                                  UserID |-> th[c].user,
                                                  Recursive |-> th[c].rec]))
               /\ \E subErr \in (IF th[c].rec THEN BOOLEAN ELSE {FALSE}) :
                    statuses' = IF subErr
                                THEN markRuntimeError(statuses, th[c].fid,
                                                      "failed to watch")
                                ELSE statuses
               /\ th' = [th EXCEPT ![c].pc = "sr_reg", ![c].rid = Len(robj) + 1]
          ELSE /\ statuses' = StartFailed(statuses, th[c].fid)
               /\ th' = [th EXCEPT ![c].pc = AfterStart(th[c].ret, "start failed"),
                                   ![c].err = "start failed"]
               /\ UNCHANGED robj
  /\ UNCHANGED <<folders, nextId, runners, tasks, jobs, svc, nev, nerr,
                 panicked, deletedOK, fs, lk>>

\* a registration that keeps the recorded error
Registered_KeepError(st, id) == SetActive(st, id, TRUE)

\* status written when the new runner is registered
Registered(st, id) ==
  Put(st, id, [StatusOf(st, id) EXCEPT !.Active = TRUE,
                                       !.LastRuntimeError = ""])

\* a second critical section that registers the new runner whatever the map
\* holds
SR_Register_Overwrite(c) ==
  /\ th[c].pc = "sr_reg"
  /\ runners' = Put(runners, th[c].fid, th[c].rid)
  /\ statuses' = Registered(statuses, th[c].fid)
  /\ th' = [th EXCEPT ![c].pc = AfterStart(th[c].ret, ""), ![c].err = ""]
  /\ UNCHANGED <<folders, nextId, robj, tasks, jobs, svc, nev, nerr,
                 panicked, deletedOK, fs, lk>>

\* second critical section: register the runner, or stop it when another one
\* was registered in between
SR_Register(c) ==
  /\ th[c].pc = "sr_reg"
  /\ IF th[c].fid \in DOMAIN runners
     THEN /\ th' = [th EXCEPT ![c].pc = "rs_check", ![c].err = "",
                               ![c].sret = AfterStart(th[c].ret, "")]
          /\ UNCHANGED <<runners, statuses>>
     ELSE /\ runners' = Put(runners, th[c].fid, th[c].rid)
          /\ statuses' = Registered(statuses, th[c].fid)
          /\ th' = [th EXCEPT ![c].pc = AfterStart(th[c].ret, ""), ![c].err = ""]
  /\ UNCHANGED <<folders, nextId, robj, tasks, jobs, svc, nev, nerr,
                 panicked, deletedOK, fs, lk>>

(***************************************************************************)
(* Service.stopRunner and folderRunner.stop                                *)
(***************************************************************************)
\* a stopRunner that leaves the runner in the map
stopRunner_Keep(c) ==
  /\ th[c].pc = "stopr"
  /\ runners' = runners
  /\ statuses' = SetActive(statuses, th[c].fid, FALSE)
  /\ IF th[c].fid \in DOMAIN runners
     THEN th' = [th EXCEPT ![c].pc = "rs_check", ![c].rid = runners[th[c].fid],
                           ![c].sret = th[c].ret]
     ELSE th' = [th EXCEPT ![c].pc = th[c].ret]
  /\ UNCHANGED <<folders, nextId, robj, tasks, jobs, svc, nev, nerr,
                 panicked, deletedOK, fs, lk>>

\* delete(s.runners, folderID), Active = false; the runner found is stopped
\* outside the lock
stopRunner(c) ==
  /\ th[c].pc = "stopr"
  /\ runners' = Del(runners, th[c].fid)
  /\ statuses' = SetActive(statuses, th[c].fid, FALSE)
  /\ IF th[c].fid \in DOMAIN runners
     THEN th' = [th EXCEPT ![c].pc = "rs_check", ![c].rid = runners[th[c].fid],
                           ![c].sret = th[c].ret]
     ELSE th' = [th EXCEPT ![c].pc = th[c].ret]
  /\ UNCHANGED <<folders, nextId, robj, tasks, jobs, svc, nev, nerr,
                 panicked, deletedOK, fs, lk>>

\* a caller that holds a reference to a runner whose stop signal is closed
\* calls stop() on it once more
StopAgain(c) ==
  /\ th[c].pc = "idle"
  /\ \E r \in RunnerIds :
       /\ robj[r].stopCh
       /\ th' = [th EXCEPT ![c] = [IdleThread EXCEPT !.op = "StopAgain",
                                                     !.pc = "rs_check",
                                                     !.rid = r,
                                                     !.sret = "idle"]]
  /\ UNCHANGED <<folders, nextId, runners, statuses, robj, tasks, jobs, svc,
                 nev, nerr, panicked, deletedOK, fs, lk>>

\* a stop() that goes on to close the stop signal without looking at it
RS_Check_Blind(c) ==
  /\ th[c].pc = "rs_check"
  /\ th' = [th EXCEPT ![c].pc = "rs_close"]
  /\ UNCHANGED <<folders, nextId, runners, statuses, robj, tasks, jobs, svc,
                 nev, nerr, panicked, deletedOK, fs, lk>>

\* select { case <-r.stopCh: return; default: }
RS_Check(c) ==
  /\ th[c].pc = "rs_check"
  /\ IF robj[th[c].rid].stopCh
     THEN /\ th' = [th EXCEPT ![c].pc = th[c].sret]
          /\ robj' = [robj EXCEPT ![th[c].rid].stopRet = TRUE]
     ELSE /\ th' = [th EXCEPT ![c].pc = "rs_close"]
          /\ UNCHANGED robj
  /\ UNCHANGED <<folders, nextId, runners, statuses, tasks, jobs, svc, nev,
                 nerr, panicked, deletedOK, fs, lk>>

\* close(r.stopCh); closing a closed channel panics
RS_Close(c) ==
  /\ th[c].pc = "rs_close"
  /\ IF robj[th[c].rid].stopCh
     THEN /\ panicked' = TRUE
          /\ th' = [th EXCEPT ![c].pc = "panic"]
          /\ UNCHANGED robj
     ELSE /\ robj' = [robj EXCEPT ![th[c].rid].stopCh = TRUE]
          /\ th' = [th EXCEPT ![c].pc = "rs_wclose"]
          /\ UNCHANGED panicked
  /\ UNCHANGED <<folders, nextId, runners, statuses, tasks, jobs, svc, nev,
                 nerr, deletedOK, fs, lk>>

\* r.watcher.Close()
RS_WatcherClose(c) ==
  /\ th[c].pc = "rs_wclose"
  /\ robj' = [robj EXCEPT ![th[c].rid].watcherOpen = FALSE]
  /\ th' = [th EXCEPT ![c].pc = "rs_timers"]
  /\ UNCHANGED <<folders, nextId, runners, statuses, tasks, jobs, svc, nev,
                 nerr, panicked, deletedOK, fs, lk>>

\* timer.Stop() on every entry of a timers map
StopAll(ts, timers) ==
  [t \in DOMAIN ts |->
     IF (\E p \in DOMAIN timers : timers[p] = t) /\ ts[t].st = "pending"
     THEN [ts[t] EXCEPT !.st = "cancelled"]
     ELSE ts[t]]

\* the critical section of stop(): stop the timers, reset the map
RS_Timers(c) ==
  /\ th[c].pc = "rs_timers"
  /\ tasks' = StopAll(tasks, robj[th[c].rid].timers)
  /\ robj' = [robj EXCEPT ![th[c].rid].timers = EmptyMap]
  /\ th' = [th EXCEPT ![c].pc = "rs_wait"]
  /\ UNCHANGED <<folders, nextId, runners, statuses, jobs, svc, nev, nerr,
                 panicked, deletedOK, fs, lk>>

\* a wait on doneCh alone, without the timer
RS_Wait_NoTimer(c, grace) ==
  /\ th[c].pc = "rs_wait"
  /\ robj[th[c].rid].doneCh
  /\ robj' = [robj EXCEPT ![th[c].rid].stopRet = TRUE]
  /\ th' = [th EXCEPT ![c].pc = th[c].sret]
  /\ UNCHANGED <<folders, nextId, runners, statuses, tasks, jobs, svc, nev,
                 nerr, panicked, deletedOK, fs, lk>>

\* select { case <-r.doneCh: case <-time.After(3 * time.Second): }
\* grace: the 3 seconds can elapse before the run loop has exited
RS_Wait(c, grace) ==
  /\ th[c].pc = "rs_wait"
  /\ grace \/ robj[th[c].rid].doneCh
  /\ robj' = [robj EXCEPT ![th[c].rid].stopRet = TRUE]
  /\ th' = [th EXCEPT ![c].pc = th[c].sret]
  /\ UNCHANGED <<folders, nextId, runners, statuses, tasks, jobs, svc, nev,
                 nerr, panicked, deletedOK, fs, lk>>

(***************************************************************************)
(* Service.getFolderView                                                   *)
(***************************************************************************)
\* the view of a row: a disabled folder is never shown active
ViewOf(row, st) ==
  [has |-> TRUE, Enabled |-> row.Enabled,
   Active |-> IF row.Enabled THEN StatusOf(st, row.ID).Active ELSE FALSE]

\* folder, err := s.folderRepo.FindByUserAndID(...): the row is read here
getFolderView(c) ==
  /\ th[c].pc \in {"cr_view", "se_view"}
  /\ LET found == FindByUserAndID(folders, th[c].user, th[c].fid)
     IN IF found = {}
        THEN th' = [th EXCEPT ![c] = Return(c, "DbErr")]
        ELSE th' = [th EXCEPT ![c].pc = "gv_status",
                              ![c].view = [has |-> FALSE,
                                           Enabled |-> (CHOOSE row \in found : TRUE).Enabled,
                                           Active |-> FALSE]]
  /\ UNCHANGED <<folders, nextId, runners, statuses, robj, tasks, jobs, svc,
                 nev, nerr, panicked, deletedOK, fs, lk>>

\* status := s.getStatus(folderID), read after the row, and the view returned
getFolderView_Status(c) ==
  /\ th[c].pc = "gv_status"
  /\ th' = [th EXCEPT ![c] =
              [Return(c, "ok") EXCEPT
                 !.view = ViewOf([ID |-> th[c].fid,
                                  Enabled |-> th[c].view.Enabled], statuses)]]
  /\ UNCHANGED <<folders, nextId, runners, statuses, robj, tasks, jobs, svc,
                 nev, nerr, panicked, deletedOK, fs, lk>>

(***************************************************************************)
(* Service.CreateUserFolder                                                *)
(***************************************************************************)
\* CreateUserFolder once normalizeFolderPath has returned n: the error
\* return and the FindByUserAndPath check
CreateUserFolder_With(c, user, n, rec, en) ==
  /\ th[c].pc = "idle"
  /\ svc = "started"
  /\ LET call == [IdleThread EXCEPT !.op = "Create", !.user = user,
                                    !.rec = rec, !.en = en, !.path = n.path]
     IN IF ~n.ok
        THEN th' = [th EXCEPT ![c] = [IdleThread EXCEPT !.op = "Create", !.en = en,
                                                  !.res = "InvalidPath"]]
        ELSE IF FindByUserAndPath(folders, user, n.path) # {}
        THEN th' = [th EXCEPT ![c] = [call EXCEPT !.res = "AlreadyExists"]]
        ELSE /\ nextId + Creating <= MaxFolders
             /\ th' = [th EXCEPT ![c] = [call EXCEPT !.pc = "cr_create"]]
  /\ UNCHANGED <<folders, nextId, runners, statuses, robj, tasks, jobs, svc,
                 nev, nerr, panicked, deletedOK, fs, lk>>

\* normalizeFolderPath(path) and the FindByUserAndPath check
CreateUserFolder(c, user, raw, rec, en) ==
  CreateUserFolder_With(c, user, normalizeFolderPath(raw), rec, en)

\* what normalizeFolderPath returns for the raw paths
NormalizedPaths == {normalizeFolderPath(raw) : raw \in RawPaths}

\* folderRepo.Create: the unique index rejects a duplicate (owner, path)
Create_Persist(c) ==
  /\ th[c].pc = "cr_create"
  /\ IF UniqueViolation(folders, th[c].user, th[c].path)
     THEN /\ th' = [th EXCEPT ![c] = Return(c, "DbErr")]
          /\ UNCHANGED <<folders, nextId>>
     ELSE /\ folders' = RepoCreate(folders, nextId, th[c].user, th[c].path,
                                   th[c].rec, th[c].en)
          /\ nextId' = nextId + 1
          /\ th' = [th EXCEPT ![c].fid = nextId,
                              ![c].ret = "cr",
                              ![c].rec = folders'[nextId].Recursive,
                              ![c].pc = IF folders'[nextId].Enabled
                                        THEN "sr_check" ELSE "cr_view"]
  /\ UNCHANGED <<runners, statuses, robj, tasks, jobs, svc, nev, nerr,
                 panicked, deletedOK, fs, lk>>

\* startRunner failed: _ = s.folderRepo.Delete(ctx, folder.ID).  The delete
\* removes the row or fails; its error is dropped.
Create_Rollback(c) ==
  /\ th[c].pc = "cr_rollback"
  /\ \E ok \in BOOLEAN :
       folders' = IF ok THEN RepoDelete(folders, th[c].fid) ELSE folders
  /\ th' = [th EXCEPT ![c].pc = "cr_clear"]
  /\ UNCHANGED <<nextId, runners, statuses, robj, tasks, jobs, svc, nev, nerr,
                 panicked, deletedOK, fs, lk>>

\* s.clearStatus(folder.ID); return nil, err
Create_Clear(c) ==
  /\ th[c].pc = "cr_clear"
  /\ statuses' = clearStatus(statuses, th[c].fid)
  /\ th' = [th EXCEPT ![c] = Return(c, "StartErr")]
  /\ UNCHANGED <<folders, nextId, runners, robj, tasks, jobs, svc, nev, nerr,
                 panicked, deletedOK, fs, lk>>

(***************************************************************************)
(* Service.SetUserFolderEnabled                                            *)
(***************************************************************************)
\* a comparison that never finds the flag unchanged
SameFlag_Never(row, en) == FALSE

\* if folder.Enabled == enabled
SameFlag(row, en) == row.Enabled = en

\* FindByUserAndID and the comparison with the persisted flag
SetUserFolderEnabled(c, user, id, en) ==
  /\ th[c].pc = "idle"
  /\ svc = "started"
  /\ LET found == FindByUserAndID(folders, user, id)
         call == [IdleThread EXCEPT !.op = "SetEnabled", !.user = user,
                                    !.fid = id, !.en = en]
     IN IF found = {}
        THEN th' = [th EXCEPT ![c] = [IdleThread EXCEPT !.op = "SetEnabled",
                                                        !.fid = id, !.en = en,
                                                        !.res = "NotFound"]]
        ELSE LET row == CHOOSE x \in found : TRUE
             IN IF SameFlag(row, en)
                THEN th' = [th EXCEPT ![c] = [call EXCEPT !.pc = "se_view",
                                                          !.noop = TRUE]]
                ELSE th' = [th EXCEPT ![c] = [call EXCEPT !.pc = "se_update",
                                                          !.rec = row.Recursive]]
  /\ UNCHANGED <<folders, nextId, runners, statuses, robj, tasks, jobs, svc,
                 nev, nerr, panicked, deletedOK, fs, lk>>

\* folder.Enabled = enabled; s.folderRepo.Update(ctx, folder): the flag is
\* stored, or the update fails and the call returns its error
SetEnabled_Update(c) ==
  /\ th[c].pc = "se_update"
  /\ \E ok \in BOOLEAN :
       IF ok
       THEN /\ folders' = RepoUpdate(folders, th[c].fid, th[c].en)
            /\ th' = [th EXCEPT
                        ![c].pc = IF th[c].en THEN "sr_check" ELSE "stopr",
                        ![c].ret = IF th[c].en THEN "se" ELSE "se_view"]
       ELSE /\ th' = [th EXCEPT ![c] = Return(c, "DbErr")]
            /\ UNCHANGED folders
  /\ UNCHANGED <<nextId, runners, statuses, robj, tasks, jobs, svc, nev, nerr,
                 panicked, deletedOK, fs, lk>>

\* startRunner failed: folder.Enabled = false;
\* _ = s.folderRepo.Update(ctx, folder); return nil, err.  The update stores
\* the flag or fails; its error is dropped.
SetEnabled_Revert(c) ==
  /\ th[c].pc = "se_revert"
  /\ \E ok \in BOOLEAN :
       folders' = IF ok THEN RepoUpdate(folders, th[c].fid, FALSE) ELSE folders
  /\ th' = [th EXCEPT ![c] = Return(c, "StartErr")]
  /\ UNCHANGED <<nextId, runners, statuses, robj, tasks, jobs, svc, nev, nerr,
                 panicked, deletedOK, fs, lk>>

(***************************************************************************)
(* Service.DeleteUserFolder                                                *)
(***************************************************************************)
DeleteUserFolder(c, user, id) ==
  /\ th[c].pc = "idle"
  /\ svc = "started"
  /\ LET call == [IdleThread EXCEPT !.op = "Delete", !.user = user, !.fid = id]
     IN IF FindByUserAndID(folders, user, id) = {}
        THEN th' = [th EXCEPT ![c] = [IdleThread EXCEPT !.op = "Delete",
                                                        !.fid = id,
                                                        !.res = "NotFound"]]
        ELSE th' = [th EXCEPT ![c] = [call EXCEPT !.pc = "stopr",
                                                  !.ret = "del_clear"]]
  /\ UNCHANGED <<folders, nextId, runners, statuses, robj, tasks, jobs, svc,
                 nev, nerr, panicked, deletedOK, fs, lk>>

Delete_Clear(c) ==
  /\ th[c].pc = "del_clear"
  /\ statuses' = clearStatus(statuses, th[c].fid)
  /\ th' = [th EXCEPT ![c].pc = "del_delete"]
  /\ UNCHANGED <<folders, nextId, runners, robj, tasks, jobs, svc, nev, nerr,
                 panicked, deletedOK, fs, lk>>

\* return s.folderRepo.Delete(ctx, folderID): the row is removed and the call
\* returns nil, or the delete fails and the call returns its error
Delete_Persist(c) ==
  /\ th[c].pc = "del_delete"
  /\ \E ok \in BOOLEAN :
       IF ok
       THEN /\ folders' = RepoDelete(folders, th[c].fid)
            /\ deletedOK' = deletedOK \cup {th[c].fid}
            /\ th' = [th EXCEPT ![c] = Return(c, "ok")]
       ELSE /\ th' = [th EXCEPT ![c] = Return(c, "DbErr")]
            /\ UNCHANGED <<folders, deletedOK>>
  /\ UNCHANGED <<nextId, runners, statuses, robj, tasks, jobs, svc, nev, nerr,
                 panicked, fs, lk>>

(***************************************************************************)
(* Service.ListUserFolders                                                 *)
(***************************************************************************)
\* a FolderView that shows the stored Active even for a disabled folder
FolderView_Stored(row, st) ==
  [ID |-> row.ID, Enabled |-> row.Enabled,
   Active |-> StatusOf(st, row.ID).Active,
   LastRuntimeError |-> StatusOf(st, row.ID).LastRuntimeError]

\* status := s.getStatus(folder.ID); if !folder.Enabled { status.Active = false }
FolderView(row, st) ==
  [ID |-> row.ID, Enabled |-> row.Enabled,
   Active |-> IF row.Enabled THEN StatusOf(st, row.ID).Active ELSE FALSE,
   LastRuntimeError |-> StatusOf(st, row.ID).LastRuntimeError]

\* folderRepo.FindByUser; "after" remembers that the call directly follows a
\* successful CreateUserFolder of the same goroutine, and for which folder
ListUserFolders(c, user) ==
  /\ th[c].pc = "idle"
  /\ svc = "started"
  /\ LET follows == /\ th[c].op = "Create" /\ th[c].res = "ok"
                    /\ FindByUserAndID(folders, user, th[c].fid) # {}
     IN th' = [th EXCEPT ![c] =
                 [IdleThread EXCEPT
                    !.op = "List", !.pc = "ls_loop", !.user = user,
                    !.list = FindByUser(folders, user),
                    !.after = IF follows THEN "Create" ELSE "none",
                    !.fid = IF follows THEN th[c].fid ELSE 0,
                    !.en = IF follows THEN th[c].en ELSE FALSE]]
  /\ UNCHANGED <<folders, nextId, runners, statuses, robj, tasks, jobs, svc,
                 nev, nerr, panicked, deletedOK, fs, lk>>

\* for _, folder := range folders { views = append(views, ...) }; return
List_Loop(c) ==
  /\ th[c].pc = "ls_loop"
  /\ LET me == th[c]
     IN IF me.list = << >>
        THEN th' = [th EXCEPT ![c] =
                      [Return(c, "ok") EXCEPT !.user = me.user,
                                              !.after = me.after,
                                              !.views = me.views]]
        ELSE th' = [th EXCEPT ![c].list = Tail(me.list),
                              ![c].views = Append(me.views,
                                                  FolderView(Head(me.list), statuses))]
  /\ UNCHANGED <<folders, nextId, runners, statuses, robj, tasks, jobs, svc,
                 nev, nerr, panicked, deletedOK, fs, lk>>

(***************************************************************************)
(* Service.Start and Service.Stop (bootstrap thread)                       *)
(***************************************************************************)
Start ==
  /\ th[Bootstrap].pc = "idle"
  /\ svc = "new"
  /\ th' = [th EXCEPT ![Bootstrap] =
              [IdleThread EXCEPT !.op = "Start", !.pc = "st_loop",
                                 !.list = FindEnabled(folders)]]
  /\ UNCHANGED <<folders, nextId, runners, statuses, robj, tasks, jobs, svc,
                 nev, nerr, panicked, deletedOK, fs, lk>>

\* for _, folder := range folders { s.startRunner(folder) }, then the result
Start_Loop ==
  /\ th[Bootstrap].pc = "st_loop"
  /\ LET me == th[Bootstrap]
     IN IF me.list = << >>
        THEN /\ svc' = "started"
             /\ th' = [th EXCEPT ![Bootstrap] =
                         [Return(Bootstrap, IF me.fails = {} THEN "ok" ELSE "AggErr")
                            EXCEPT !.fails = me.fails]]
        ELSE /\ th' = [th EXCEPT ![Bootstrap].pc = "sr_check",
                                 ![Bootstrap].ret = "st",
                                 ![Bootstrap].fid = Head(me.list).ID,
                                 ![Bootstrap].user = Head(me.list).UserID,
                                 ![Bootstrap].rec = Head(me.list).Recursive]
             /\ UNCHANGED svc
  /\ UNCHANGED <<folders, nextId, runners, statuses, robj, tasks, jobs,
                 nev, nerr, panicked, deletedOK, fs, lk>>

\* failures = append(failures, ...) when startRunner returned an error
Start_Next ==
  /\ th[Bootstrap].pc = "st_next"
  /\ LET me == th[Bootstrap]
     IN th' = [th EXCEPT ![Bootstrap].pc = "st_loop",
                         ![Bootstrap].list = Tail(me.list),
                         ![Bootstrap].err = "",
                         ![Bootstrap].fails = IF me.err = "" THEN me.fails
                                              ELSE me.fails \cup {me.fid}]
  /\ UNCHANGED <<folders, nextId, runners, statuses, robj, tasks, jobs, svc,
                 nev, nerr, panicked, deletedOK, fs, lk>>

\* the orders in which a range over a map with the keys S can visit them
RECURSIVE RangeOrders(_)
RangeOrders(S) ==
  IF S = {} THEN {<< >>}
  ELSE UNION {{<<k>> \o rest : rest \in RangeOrders(S \ {k})} : k \in S}

\* every status with Active = false
AllInactive(st) == [i \in DOMAIN st |-> [st[i] EXCEPT !.Active = FALSE]]

\* the critical section of Stop: detach every runner, mark every status
Stop(quiet) ==
  /\ th[Bootstrap].pc = "idle"
  /\ svc = "started"
  /\ quiet => \A c \in AllCallers : th[c].pc = "idle"
  /\ runners' = EmptyMap
  /\ statuses' = AllInactive(statuses)
  /\ svc' = "stopping"
  /\ \E order \in RangeOrders(DOMAIN runners) :
       th' = [th EXCEPT ![Bootstrap] =
                [IdleThread EXCEPT
                   !.op = "Stop", !.pc = "sp_loop",
                   !.list = RowsOf(runners, order)]]
  /\ UNCHANGED <<folders, nextId, robj, tasks, jobs, nev, nerr, panicked,
                 deletedOK, fs, lk>>

\* for _, runner := range runners { runner.stop() }
Stop_Loop ==
  /\ th[Bootstrap].pc = "sp_loop"
  /\ LET me == th[Bootstrap]
     IN IF me.list = << >>
        THEN /\ svc' = "stopped"
             /\ th' = [th EXCEPT ![Bootstrap] = Return(Bootstrap, "ok")]
        ELSE /\ th' = [th EXCEPT ![Bootstrap].pc = "rs_check",
                                 ![Bootstrap].sret = "sp_loop",
                                 ![Bootstrap].rid = Head(me.list),
                                 ![Bootstrap].list = Tail(me.list)]
             /\ UNCHANGED svc
  /\ UNCHANGED <<folders, nextId, runners, statuses, robj, tasks, jobs,
                 nev, nerr, panicked, deletedOK, fs, lk>>

(***************************************************************************)
(* Service.mu.  Every method of the service is followed as the sequence of *)
(* its lock operations ("Lock", "Unlock", "RLock", "RUnlock"), its         *)
(* accesses to s.runners and s.statuses ("maps") and its calls that do     *)
(* I/O: the folder, job, user and profile storage, the job queue, os.Stat, *)
(* os.MkdirAll, copyFile, runner.start and runner.stop.  "maps" stands for *)
(* all the map accesses of one critical section.  A method that branches   *)
(* has one sequence per branch.                                            *)
(***************************************************************************)
IoOps == {"folderRepo", "jobRepo", "userRepo", "profileRepo", "taskQueue",
          "os.Stat", "os.MkdirAll", "copyFile", "runner.start", "runner.stop"}

\* every sequence of A followed by every sequence of B
Cat(A, B) == {a \o b : a \in A, b \in B}

\* setStatus and clearStatus: Lock, defer Unlock, the map update
Mu_setStatus == {<<"Lock", "maps", "Unlock">>}

\* getStatus: RLock, defer RUnlock, the map read
Mu_getStatus == {<<"RLock", "maps", "RUnlock">>}

\* runner.start() that succeeds: the watch on the root, and for a recursive
\* folder the walk, which records through markRuntimeError (setStatus) a
\* subdirectory it cannot watch and goes on
Mu_runnerStart ==
  {<<"runner.start">>}
    \cup Cat(Cat({<<"runner.start">>}, Mu_setStatus), {<<"runner.start">>})

\* startRunner: the runner exists; the runner is registered; another runner
\* was registered meanwhile
Mu_startRunner_Ok ==
  {<<"Lock", "maps", "Unlock">>}
    \cup Cat(Cat({<<"Lock", "maps", "Unlock">>}, Mu_runnerStart),
             { <<"Lock", "maps", "Unlock">>,
               <<"Lock", "maps", "Unlock", "runner.stop">> })

\* startRunner: runner.start() fails on the watcher or on the root
Mu_startRunner_Err ==
  Cat({<<"Lock", "maps", "Unlock", "runner.start">>}, Mu_setStatus)

\* a stopRunner that unlocks with defer
Mu_stopRunner_Deferred ==
  { <<"Lock", "maps", "Unlock">>,
    <<"Lock", "maps", "runner.stop", "Unlock">> }

\* stopRunner: with and without a registered runner
Mu_stopRunner ==
  { <<"Lock", "maps", "Unlock">>,
    <<"Lock", "maps", "Unlock", "runner.stop">> }

\* Start: FindEnabled fails or finds nothing, or one startRunner
Mu_Start ==
  {<<"folderRepo">>}
    \cup Cat({<<"folderRepo">>}, Mu_startRunner_Ok \cup Mu_startRunner_Err)

\* Stop: no, one or two runners
Mu_Stop ==
  Cat({<<"Lock", "maps", "Unlock">>},
      {<< >>, <<"runner.stop">>, <<"runner.stop", "runner.stop">>})

\* getFolderView: FindByUserAndID fails, or getStatus
Mu_getFolderView == {<<"folderRepo">>} \cup Cat({<<"folderRepo">>}, Mu_getStatus)

\* ListUserFolders: FindByUser fails or finds no folder, one folder, two
Mu_ListUserFolders ==
  {<<"folderRepo">>}
    \cup Cat({<<"folderRepo">>}, Mu_getStatus)
    \cup Cat(Cat({<<"folderRepo">>}, Mu_getStatus), Mu_getStatus)

\* CreateUserFolder: an early return; not enabled; started; rolled back
Mu_CreateUserFolder ==
  { <<"os.Stat">>, <<"os.Stat", "folderRepo">>,
    <<"os.Stat", "folderRepo", "folderRepo">> }
    \cup Cat({<<"os.Stat", "folderRepo", "folderRepo">>}, Mu_getFolderView)
    \cup Cat(Cat({<<"os.Stat", "folderRepo", "folderRepo">>}, Mu_startRunner_Ok),
             Mu_getFolderView)
    \cup Cat(Cat(Cat({<<"os.Stat", "folderRepo", "folderRepo">>},
                     Mu_startRunner_Err),
                 {<<"folderRepo">>}), Mu_setStatus)

\* SetUserFolderEnabled: not found; unchanged; Update fails; enabled; the
\* start fails; disabled
Mu_SetUserFolderEnabled ==
  { <<"folderRepo">>, <<"folderRepo", "folderRepo">> }
    \cup Cat({<<"folderRepo">>}, Mu_getFolderView)
    \cup Cat(Cat({<<"folderRepo", "folderRepo">>}, Mu_startRunner_Ok),
             Mu_getFolderView)
    \cup Cat(Cat({<<"folderRepo", "folderRepo">>}, Mu_startRunner_Err),
             {<<"folderRepo">>})
    \cup Cat(Cat({<<"folderRepo", "folderRepo">>}, Mu_stopRunner),
             Mu_getFolderView)

\* DeleteUserFolder: not found; stopRunner, clearStatus, Delete
Mu_DeleteUserFolder ==
  {<<"folderRepo">>}
    \cup Cat(Cat(Cat({<<"folderRepo">>}, Mu_stopRunner), Mu_setStatus),
             {<<"folderRepo">>})

\* the profile lookups of maybeQueueAutoTranscription: the user's default,
\* the system default, the first of the list
Mu_profileLookups ==
  { <<"profileRepo">>, <<"profileRepo", "profileRepo">>,
    <<"profileRepo", "profileRepo", "profileRepo">> }

\* maybeQueueAutoTranscription: no user or auto off; no profile; the update
\* fails and is reverted; enqueued; the enqueue fails and is reverted
Mu_maybeQueueAutoTranscription ==
  {<<"userRepo">>}
    \cup Cat(Cat({<<"userRepo">>}, Mu_profileLookups),
             { << >>, <<"jobRepo", "jobRepo">>, <<"jobRepo", "taskQueue">>,
               <<"jobRepo", "taskQueue", "jobRepo">> })

\* importFile: os.Stat fails or the path is no audio file; MkdirAll fails;
\* the copy fails; Create fails
Mu_importFile_Err ==
  { <<"os.Stat">>, <<"os.Stat", "os.MkdirAll">>,
    <<"os.Stat", "os.MkdirAll", "copyFile">>,
    <<"os.Stat", "os.MkdirAll", "copyFile", "jobRepo">> }

\* importFile: the job is created
Mu_importFile_Ok ==
  Cat({<<"os.Stat", "os.MkdirAll", "copyFile", "jobRepo">>},
      Mu_maybeQueueAutoTranscription)

\* the goroutines of a runner: the run loop recording a watcher error or a
\* failed watcher.Add, and the timer callback (processCandidate): the path is
\* gone or already imported; the check fails; the import fails; imported
Mu_runner ==
  Mu_setStatus
    \cup {<<"os.Stat">>}
    \cup Cat({<<"os.Stat">>}, Mu_setStatus)
    \cup Cat(Cat({<<"os.Stat">>}, Mu_importFile_Err), Mu_setStatus)
    \cup Cat(Cat({<<"os.Stat">>}, Mu_importFile_Ok), Mu_setStatus)

\* the methods each goroutine of SpecLock calls: the bootstrap, a request
\* goroutine, a goroutine of a runner
Mu_Programs(c) ==
  IF c = Bootstrap THEN Mu_Start \cup Mu_Stop
  ELSE IF c = 1
  THEN Mu_ListUserFolders \cup Mu_CreateUserFolder
         \cup Mu_SetUserFolderEnabled \cup Mu_DeleteUserFolder
  ELSE Mu_runner

\* thread c holds s.mu, for writing or for reading
Holds(c) == c \in lk.writers \/ c \in lk.readers

\* the operation thread c executes next; code is what is left of the method
NextOp(c) ==
  IF ~lk.run[c].in THEN "idle"
  ELSE IF lk.run[c].code = << >> THEN "return"
  ELSE Head(lk.run[c].code)

Advance(c) == [lk.run EXCEPT ![c].code = Tail(@)]

OnlyLk ==
  UNCHANGED <<folders, nextId, runners, statuses, robj, tasks, jobs, th, svc,
              nev, nerr, panicked, deletedOK, fs>>

\* the goroutine calls a method (one of its branches)
Mu_Call(c) ==
  /\ ~lk.run[c].in
  /\ \E code \in Mu_Programs(c) :
       lk' = [lk EXCEPT !.run[c] = [in |-> TRUE, code |-> code]]
  /\ OnlyLk

\* s.mu.Lock(): waits until nobody holds the lock
Mu_Lock(c) ==
  /\ NextOp(c) = "Lock"
  /\ lk.writers = {} /\ lk.readers = {}
  /\ lk' = [lk EXCEPT !.writers = {c}, !.run = Advance(c)]
  /\ OnlyLk

Mu_Unlock(c) ==
  /\ NextOp(c) = "Unlock"
  /\ lk' = [lk EXCEPT !.writers = @ \ {c}, !.run = Advance(c)]
  /\ OnlyLk

\* s.mu.RLock(): waits until no writer holds the lock
Mu_RLock(c) ==
  /\ NextOp(c) = "RLock"
  /\ lk.writers = {}
  /\ lk' = [lk EXCEPT !.readers = @ \cup {c}, !.run = Advance(c)]
  /\ OnlyLk

Mu_RUnlock(c) ==
  /\ NextOp(c) = "RUnlock"
  /\ lk' = [lk EXCEPT !.readers = @ \ {c}, !.run = Advance(c)]
  /\ OnlyLk

\* an access to s.runners or s.statuses
Mu_Maps(c) ==
  /\ NextOp(c) = "maps"
  /\ lk' = [lk EXCEPT !.run = Advance(c)]
  /\ OnlyLk

\* a call that does I/O
Mu_Io(c) ==
  /\ NextOp(c) \in IoOps
  /\ lk' = [lk EXCEPT !.run = Advance(c)]
  /\ OnlyLk

\* the method returns
Mu_Return(c) ==
  /\ NextOp(c) = "return"
  /\ lk' = [lk EXCEPT !.run[c] = [in |-> FALSE, code |-> << >>]]
  /\ OnlyLk

(***************************************************************************)
(* Specifications.                                                         *)
(***************************************************************************)
FolderIds == 1..MaxFolders

\* startRunner, as called by thread c
StartRunnerStep(c) ==
  \/ SR_Check(c)
  \/ SR_Start(c)
  \/ SR_Register(c)

\* runner.stop(), as called by thread c
RunnerStopStep(c, grace) ==
  \/ RS_Check(c)
  \/ RS_Close(c)
  \/ RS_WatcherClose(c)
  \/ RS_Timers(c)
  \/ RS_Wait(c, grace)

\* the goroutines of the runners: run loops and timer callbacks
RunnerStep(limit, events, runs) ==
  \/ \E r \in RunnerIds : \E e \in events : RunRecvEvent(r, e, limit)
  \/ \E r \in RunnerIds : handleEvent(r)
  \/ \E t \in TaskIds : TimerFire(t)
  \/ \E t \in TaskIds : processCandidate(t, runs)
  \/ \E t \in TaskIds : importFile(t, PlainImports)
  \/ \E t \in TaskIds : MQ_FindUser(t, PlainImports)
  \/ \E t \in TaskIds : PC_MarkError(t)
  \/ \E t \in TaskIds : PC_Record(t)
  \/ \E t \in TaskIds : PC_Mark(t)
  \/ \E t \in TaskIds : TimerTail(t)

BootstrapStep(quiet, grace) ==
  \/ Start
  \/ Start_Loop
  \/ Start_Next
  \/ Stop(quiet)
  \/ Stop_Loop
  \/ StartRunnerStep(Bootstrap)
  \/ RunnerStopStep(Bootstrap, grace)

ToggleStep(c, grace) ==
  \/ \E u \in Users, id \in FolderIds, en \in BOOLEAN :
       SetUserFolderEnabled(c, u, id, en)
  \/ SetEnabled_Update(c)
  \/ SetEnabled_Revert(c)
  \/ \E u \in Users, id \in FolderIds : DeleteUserFolder(c, u, id)
  \/ Delete_Clear(c)
  \/ Delete_Persist(c)
  \/ stopRunner(c)
  \/ getFolderView(c)
  \/ getFolderView_Status(c)
  \/ StartRunnerStep(c)
  \/ RunnerStopStep(c, grace)

\* SetUserFolderEnabled, as called by thread c
EnableStep(c, grace) ==
  \/ \E u \in Users, id \in FolderIds, en \in BOOLEAN :
       SetUserFolderEnabled(c, u, id, en)
  \/ SetEnabled_Update(c)
  \/ SetEnabled_Revert(c)
  \/ stopRunner(c)
  \/ getFolderView(c)
  \/ getFolderView_Status(c)
  \/ StartRunnerStep(c)
  \/ RunnerStopStep(c, grace)

\* SetUserFolderEnabled(true), as called by thread c
TurnOnStep(c, grace) ==
  \/ \E u \in Users, id \in FolderIds : SetUserFolderEnabled(c, u, id, TRUE)
  \/ SetEnabled_Update(c)
  \/ SetEnabled_Revert(c)
  \/ getFolderView(c)
  \/ getFolderView_Status(c)
  \/ StartRunnerStep(c)
  \/ RunnerStopStep(c, grace)

CreateStep(c) ==
  \/ \E u \in Users, n \in NormalizedPaths, rec \in {FALSE}, en \in BOOLEAN :
       CreateUserFolder_With(c, u, n, rec, en)
  \/ Create_Persist(c)
  \/ Create_Rollback(c)
  \/ Create_Clear(c)
  \/ getFolderView(c)
  \/ getFolderView_Status(c)
  \/ StartRunnerStep(c)

ListStep(c) ==
  \/ \E u \in Users : ListUserFolders(c, u)
  \/ List_Loop(c)

\* SpecLife: the life of the folders a process finds in its table: Start, one
\* request goroutine enabling, disabling and deleting any folder id as any
\* user, the runners' goroutines, Stop.
NextLife ==
  \/ ToggleStep(1, TRUE)
  \/ BootstrapStep(TRUE, TRUE)
  \/ RunnerStep(MaxLifeEvents, LifeEvents, LifePolls)
  \/ \E r \in RunnerIds : RunExit(r)

SpecLife == Init /\ [][NextLife]_vars

\* the requests of a folder's owner on the folders that exist
OwnerStep(c, grace) ==
  \/ \E u \in Users, id \in FolderIds, en \in BOOLEAN :
       /\ id \in DOMAIN folders /\ folders[id].UserID = u
       /\ SetUserFolderEnabled(c, u, id, en)
  \/ SetEnabled_Update(c)
  \/ SetEnabled_Revert(c)
  \/ \E u \in Users, id \in FolderIds :
       /\ id \in DOMAIN folders /\ folders[id].UserID = u
       /\ DeleteUserFolder(c, u, id)
  \/ Delete_Clear(c)
  \/ Delete_Persist(c)
  \/ stopRunner(c)
  \/ getFolderView(c)
  \/ getFolderView_Status(c)
  \/ StartRunnerStep(c)
  \/ RunnerStopStep(c, grace)

\* Spec: the owner toggling and deleting the folder while its runners import:
\* SpecLife restricted to the requests on folders the caller owns, to the
\* runs in which every run loop exits within the grace period of stop(), and
\* to a service that is started and not stopped.
Next ==
  \/ OwnerStep(1, FALSE)
  \/ Start
  \/ Start_Loop
  \/ Start_Next
  \/ StartRunnerStep(Bootstrap)
  \/ RunnerStep(MaxLifeEvents, LifeEvents, LifePolls)
  \/ \E r \in RunnerIds : RunExit(r)

Spec == Init /\ [][Next]_vars

\* SpecForeign: requests with any folder id as any user, on a process whose
\* runners report watcher errors.
NextForeign ==
  \/ ToggleStep(1, TRUE)
  \/ BootstrapStep(TRUE, TRUE)
  \/ \E r \in RunnerIds : RunRecvError(r)
  \/ \E r \in RunnerIds : RunMarkError(r)
  \/ \E r \in RunnerIds : RunExit(r)

SpecForeign == Init /\ [][NextForeign]_vars

\* SpecPrompt: SpecLife restricted to the runs in which every run loop exits
\* within the grace period of stop(), so that stop() returns only after
\* doneCh is closed.
NextPrompt ==
  \/ ToggleStep(1, FALSE)
  \/ BootstrapStep(TRUE, FALSE)
  \/ RunnerStep(MaxLifeEvents, LifeEvents, LifePolls)
  \/ \E r \in RunnerIds : RunExit(r)

SpecPrompt == Init /\ [][NextPrompt]_vars

\* SpecRun: one process with its runners: Start, file-system events and
\* watcher errors, debounce timers, imports.
NextRun ==
  \/ Start
  \/ Start_Loop
  \/ Start_Next
  \/ StartRunnerStep(Bootstrap)
  \/ RunnerStep(MaxEvents, FsEvents, PollRuns)
  \/ \E r \in RunnerIds : RunRecvError(r)
  \/ \E r \in RunnerIds : RunMarkError(r)

SpecRun == Init /\ [][NextRun]_vars

\* SpecCreate: request goroutines creating folders.
NextCreate ==
  \/ \E c \in AllCallers : CreateStep(c)
  \/ Start
  \/ Start_Loop
  \/ Start_Next
  \/ StartRunnerStep(Bootstrap)

SpecCreate == Init /\ [][NextCreate]_vars

\* SpecCreateToggle: one request goroutine creating folders while another
\* one disables them.
NextCreateToggle ==
  \/ CreateStep(1)
  \/ \E u \in Users, id \in FolderIds : SetUserFolderEnabled(2, u, id, FALSE)
  \/ SetEnabled_Update(2)
  \/ stopRunner(2)
  \/ getFolderView(2)
  \/ getFolderView_Status(2)
  \/ RunnerStopStep(2, FALSE)
  \/ \E r \in RunnerIds : RunExit(r)
  \/ Start
  \/ Start_Loop
  \/ Start_Next
  \/ StartRunnerStep(Bootstrap)

SpecCreateToggle == Init /\ [][NextCreateToggle]_vars

\* SpecCatalog: one request goroutine creating folders and listing them.
NextCatalog ==
  \/ CreateStep(1)
  \/ ListStep(1)
  \/ Start
  \/ Start_Loop
  \/ Start_Next
  \/ StartRunnerStep(Bootstrap)

SpecCatalog == Init /\ [][NextCatalog]_vars

\* SpecList: one request goroutine enabling and disabling folders while a
\* second one lists them; no file-system events.
NextList ==
  \/ EnableStep(1, TRUE)
  \/ ListStep(2)
  \/ Start
  \/ Start_Loop
  \/ Start_Next
  \/ StartRunnerStep(Bootstrap)

SpecList == InitList /\ [][NextList]_vars

\* SpecBoot: the life of a process without requests: Start on a table with
\* several folders, the runners' goroutines, Stop.
NextBoot ==
  \/ BootstrapStep(TRUE, TRUE)
  \/ RunnerStep(MaxLifeEvents, LifeEvents, LifePolls)
  \/ \E r \in RunnerIds : RunExit(r)

SpecBoot == InitBoot /\ [][NextBoot]_vars

\* SpecBootLive: SpecBoot in which the goroutine that called Stop keeps
\* running (it is scheduled, and the timer of time.After fires); nothing is
\* assumed about the run loops and the timer callbacks.
SpecBootLive ==
  /\ InitBoot
  /\ [][NextBoot]_vars
  /\ WF_vars(Stop_Loop \/ RunnerStopStep(Bootstrap, TRUE))

\* SpecBootPrompt: SpecBoot restricted to the runs in which every run loop
\* exits within the grace period of stop().
NextBootPrompt ==
  \/ BootstrapStep(TRUE, FALSE)
  \/ RunnerStep(MaxLifeEvents, LifeEvents, LifePolls)
  \/ \E r \in RunnerIds : RunExit(r)

SpecBootPrompt == InitBoot /\ [][NextBootPrompt]_vars

\* SpecRace: request goroutines enabling folders concurrently, so that
\* several startRunner calls for one folder id overlap.
NextRace ==
  \/ \E c \in AllCallers : TurnOnStep(c, TRUE)
  \/ Start
  \/ Start_Loop
  \/ Start_Next
  \/ StartRunnerStep(Bootstrap)
  \/ \E r \in RunnerIds : RunExit(r)

SpecRace == Init /\ [][NextRace]_vars

\* SpecProbe: one process whose imports meet every poll run of ProbeRuns.
NextProbe ==
  \/ Start
  \/ Start_Loop
  \/ Start_Next
  \/ StartRunnerStep(Bootstrap)
  \/ RunnerStep(MaxLifeEvents, LifeEvents, ProbeRuns)

SpecProbe == InitBoot /\ [][NextProbe]_vars

\* SpecFilter: one process whose runners receive every event of FilterEvents.
NextFilter ==
  \/ Start
  \/ Start_Loop
  \/ Start_Next
  \/ StartRunnerStep(Bootstrap)
  \/ RunnerStep(MaxLifeEvents, FilterEvents, LifePolls)

SpecFilter == Init /\ [][NextFilter]_vars

\* SpecTree: a restored service, the directory tree of one folder and the
\* events the kernel delivers for it.  The file is complete when it appears,
\* so that a stability check of it finds it unchanged or, at worst, touched.
\* The run loops, the timers and the callbacks keep running.
TreeRuns == { <<F1, F1, F1, F1, F1>>,
              <<F1, F2, F2, F2, F2>>,
              <<F1, F2, F1, F2, F1>> }

TreeRunnerStep ==
  \/ \E r \in RunnerIds : RunRecvQueued(r)
  \/ \E r \in RunnerIds : handleEvent(r)
  \/ \E t \in TaskIds : TimerFire(t)
  \/ \E t \in TaskIds : processCandidate(t, TreeRuns)
  \/ \E t \in TaskIds : importFile(t, PlainImports)
  \/ \E t \in TaskIds : MQ_FindUser(t, PlainImports)
  \/ \E t \in TaskIds : PC_MarkError(t)
  \/ \E t \in TaskIds : PC_Record(t)
  \/ \E t \in TaskIds : PC_Mark(t)
  \/ \E t \in TaskIds : TimerTail(t)

NextTree ==
  \/ Start
  \/ Start_Loop
  \/ Start_Next
  \/ StartRunnerStep(Bootstrap)
  \/ MkSubdir
  \/ DropFile
  \/ TreeRunnerStep

SpecTree ==
  /\ InitTree
  /\ [][NextTree]_vars
  /\ WF_vars(TreeRunnerStep)

\* SpecFail: a restored service whose runners meet every failure of the
\* asynchronous path (watcher errors, failed watcher.Add, stabilization
\* timeouts, failed imports) and are stopped by Stop.
NextFail ==
  \/ BootstrapStep(TRUE, TRUE)
  \/ RunnerStep(MaxLifeEvents + 1, LifeEvents, LifePolls)
  \/ \E r \in RunnerIds : RunRecvError(r)
  \/ \E r \in RunnerIds : RunMarkError(r)
  \/ \E r \in RunnerIds : RunExit(r)

SpecFail == Init /\ [][NextFail]_vars

\* SpecImport: one process whose imports meet every answer of the user,
\* profile and job storage and of the job queue.
NextImport ==
  \/ Start
  \/ Start_Loop
  \/ Start_Next
  \/ StartRunnerStep(Bootstrap)
  \/ \E r \in RunnerIds : \E e \in LifeEvents :
       RunRecvEvent(r, e, MaxLifeEvents)
  \/ \E r \in RunnerIds : handleEvent(r)
  \/ \E t \in TaskIds : TimerFire(t)
  \/ \E t \in TaskIds : processCandidate(t, LifePolls)
  \/ \E t \in TaskIds : importFile(t, FailAnswers)
  \/ \E t \in TaskIds : MQ_FindUser(t, UserAnswers)
  \/ \E t \in TaskIds : MQ_FindByID(t, FetchAnswers)
  \/ \E t \in TaskIds : MQ_FindDefault(t, SysAnswers)
  \/ \E t \in TaskIds : MQ_List(t, ListAnswers)
  \/ \E t \in TaskIds : MQ_Update(t, UpdateAnswers)
  \/ \E t \in TaskIds : MQ_Revert(t, RevertAnswers)
  \/ \E t \in TaskIds : PC_MarkError(t)
  \/ \E t \in TaskIds : PC_Record(t)
  \/ \E t \in TaskIds : PC_Mark(t)
  \/ \E t \in TaskIds : TimerTail(t)
  \/ \E t \in TaskIds : EnqueueJob(t)
  \/ \E t \in TaskIds : EnqueueJob_Revert(t)

SpecImport == Init /\ [][NextImport]_vars

\* SpecRetry: one process whose runner receives the events of a file again
\* after an import of it, for a user whose default profile can be fetched.
NextRetry ==
  \/ Start
  \/ Start_Loop
  \/ Start_Next
  \/ StartRunnerStep(Bootstrap)
  \/ \E r \in RunnerIds : \E e \in LifeEvents :
       RunRecvEvent(r, e, MaxLifeEvents + 1)
  \/ \E r \in RunnerIds : handleEvent(r)
  \/ \E t \in TaskIds : TimerFire(t)
  \/ \E t \in TaskIds : processCandidate(t, LifePolls)
  \/ \E t \in TaskIds : importFile(t, QueueImports)
  \/ \E t \in TaskIds : MQ_FindUser(t, QueueImports)
  \/ \E t \in TaskIds : MQ_FindByID(t, QueueImports)
  \/ \E t \in TaskIds : MQ_Update(t, QueueImports)
  \/ \E t \in TaskIds : MQ_Revert(t, QueueImports)
  \/ \E t \in TaskIds : PC_MarkError(t)
  \/ \E t \in TaskIds : PC_Record(t)
  \/ \E t \in TaskIds : PC_Mark(t)
  \/ \E t \in TaskIds : TimerTail(t)
  \/ \E t \in TaskIds : EnqueueJob(t)
  \/ \E t \in TaskIds : EnqueueJob_Revert(t)

SpecRetry == Init /\ [][NextRetry]_vars

\* The goroutines of the service around Service.mu: the bootstrap calls Start
\* and Stop, a request goroutine calls the exported methods, a goroutine of a
\* runner records errors and imports.
NextLock ==
  \E c \in Threads :
    \/ Mu_Call(c)
    \/ Mu_Lock(c)
    \/ Mu_Unlock(c)
    \/ Mu_RLock(c)
    \/ Mu_RUnlock(c)
    \/ Mu_Maps(c)
    \/ Mu_Io(c)
    \/ Mu_Return(c)

SpecLock == Init /\ [][NextLock]_vars

\* SpecStopTwice: one request goroutine enabling and disabling, the run
\* loops scheduling timers, and a second goroutine that calls stop() again on
\* runners that have been stopped.
NextStopTwice ==
  \/ EnableStep(1, TRUE)
  \/ Start
  \/ Start_Loop
  \/ Start_Next
  \/ StartRunnerStep(Bootstrap)
  \/ \E r \in RunnerIds : \E e \in LifeEvents :
       RunRecvEvent(r, e, MaxLifeEvents)
  \/ \E r \in RunnerIds : handleEvent(r)
  \/ \E r \in RunnerIds : RunExit(r)
  \/ StopAgain(2)
  \/ RS_Check(2)

SpecStopTwice == Init /\ [][NextStopTwice]_vars

\* SpecContend: request goroutines enabling, disabling and deleting
\* concurrently, and a Stop that does not wait for the requests in flight; no
\* file-system events, and no run loop exits within the grace period of
\* stop().
NextContend ==
  \/ \E c \in AllCallers : ToggleStep(c, TRUE)
  \/ BootstrapStep(FALSE, TRUE)

SpecContend == Init /\ [][NextContend]_vars

(***************************************************************************)
(* Properties.                                                             *)
(***************************************************************************)
SameFile(t, u) == tasks[t].rid = tasks[u].rid /\ tasks[t].path = tasks[u].path

\* C1: for one runner and one path, the events that arrive before the pending
\* timer of the path fires lead to one import attempt, the one scheduled by
\* the last of them: a timer that fires (starts processCandidate) is never one
\* after which a newer timer was scheduled for the same runner and path.
C1_BurstOneAttempt ==
  [][\A t \in TaskIds :
       (tasks[t].st = "pending" /\ tasks'[t].st = "stabilizing")
         => ~\E u \in TaskIds : u > t /\ SameFile(t, u)]_vars

\* C2: for one runner and one path, at most one job record is created for one
\* signature.
C2_OneJobPerSignature ==
  \A i, j \in DOMAIN jobs :
    (jobs[i].rid = jobs[j].rid /\ jobs[i].src = jobs[j].src
       /\ jobs[i].sig = jobs[j].sig) => i = j

\* C3: no processCandidate of a runner begins after stop() has returned on
\* that runner.
C3_NoImportAfterStop ==
  \A t \in TaskIds : ~tasks[t].late

\* C4: once DeleteUserFolder has returned nil for a folder id, the folder is
\* not in the table, no runner is registered for the id and the status map
\* has no entry for the id, in that state and in every later state.
C4_DeletedLeavesNothing ==
  \A id \in deletedOK :
    /\ id \notin DOMAIN folders
    /\ id \notin DOMAIN runners
    /\ id \notin DOMAIN statuses

\* the last call of thread 1 was a SetUserFolderEnabled(fid, en) that changed
\* the persisted flag, it has returned, and Stop has not been called since
Toggled(en) ==
  /\ svc = "started"
  /\ th[1].pc = "idle"
  /\ th[1].op = "SetEnabled"
  /\ th[1].res = "ok"
  /\ th[1].en = en
  /\ ~th[1].noop

\* what C5 says about the registry after a disable and after an enable
C5_Registry ==
  /\ Toggled(FALSE) =>
       /\ th[1].fid \in DOMAIN folders /\ ~folders[th[1].fid].Enabled
       /\ th[1].fid \notin DOMAIN runners
       /\ ~StatusOf(statuses, th[1].fid).Active
  /\ Toggled(TRUE) =>
       /\ th[1].fid \in DOMAIN runners
       /\ ~robj[runners[th[1].fid]].stopCh
       /\ StatusOf(statuses, th[1].fid).Active

\* C5: after SetUserFolderEnabled(false) has returned on an enabled folder the
\* flag is false, no runner is registered, Active is false and no import
\* attempt of the folder starts; a following successful
\* SetUserFolderEnabled(true) registers a new, running runner with
\* Active = true.
C5_DisableStopsImports ==
  /\ C5_Registry
  /\ Toggled(FALSE) =>
       \A t \in TaskIds : robj[tasks[t].rid].fid = th[1].fid => ~tasks[t].late

\* the folder id does not exist or belongs to another user
Foreign(user, id) == id \notin DOMAIN folders \/ folders[id].UserID # user

\* C6: DeleteUserFolder and SetUserFolderEnabled on a folder id that does not
\* exist or belongs to another user return NotFound in the same step and leave
\* the table, the runner map, the status map and every runner unchanged.
C6_ForeignNotFound ==
  [][(th[1].pc = "idle" /\ th'[1] # th[1] /\ th'[1].op \in {"Delete", "SetEnabled"})
       => \A u \in Users, id \in FolderIds :
            (Foreign(u, id)
               /\ (DeleteUserFolder(1, u, id)
                     \/ \E en \in BOOLEAN : SetUserFolderEnabled(1, u, id, en)))
              => /\ th'[1].pc = "idle"
                 /\ th'[1].res = "NotFound"
                 /\ UNCHANGED <<folders, runners, statuses, robj, tasks>>]_vars

\* a call on another user's folder, which has a registered runner, has
\* returned NotFound
C6_Witness ==
  /\ th[1].pc = "idle"
  /\ th[1].op = "Delete"
  /\ th[1].res = "NotFound"
  /\ th[1].fid \in DOMAIN folders
  /\ th[1].fid \in DOMAIN runners
  /\ ~robj[runners[th[1].fid]].stopCh

\* no two rows of the table have the same owner and path
UniqueOwnerPath ==
  \A i, j \in DOMAIN folders :
    (folders[i].UserID = folders[j].UserID /\ folders[i].Path = folders[j].Path)
      => i = j

\* the user has a row with this path
Watches(u, path) ==
  \E i \in DOMAIN folders : folders[i].UserID = u /\ folders[i].Path = path

\* thread c enters CreateUserFolder
CreateCall(c) == th[c].pc = "idle" /\ th'[c] # th[c] /\ th'[c].op = "Create"

\* C7: CreateUserFolder returns AlreadyExists, and changes nothing, exactly
\* when the calling user already has a folder with the normalized path (a
\* folder of another user with that path does not reject the call); and under
\* every interleaving of the calls no two persisted folders have the same
\* (owner, path).
C7_UniquePerOwner ==
  /\ []UniqueOwnerPath
  /\ [][\A c \in AllCallers :
          CreateCall(c) =>
            /\ th'[c].res = "AlreadyExists"
                 => /\ th'[c].pc = "idle"
                    /\ Watches(th'[c].user, th'[c].path)
                    /\ UNCHANGED <<folders, nextId, runners, statuses, robj>>
            /\ th'[c].pc = "cr_create"
                 => ~Watches(th'[c].user, th'[c].path)
            /\ \/ th'[c].pc = "cr_create"
               \/ th'[c].pc = "idle" /\ th'[c].res \in {"AlreadyExists", "InvalidPath"}]_vars

\* two users watch the same path, and a call has been rejected with
\* AlreadyExists
C7_Witness ==
  /\ \E c \in AllCallers :
       /\ th[c].pc = "idle" /\ th[c].op = "Create" /\ th[c].res = "AlreadyExists"
       /\ Watches(th[c].user, th[c].path)
  /\ \E i, j \in DOMAIN folders :
       folders[i].UserID # folders[j].UserID /\ folders[i].Path = folders[j].Path

\* CreateUserFolder(enabled = true) of thread c has returned the start error
CreateFailed(c) ==
  /\ th[c].pc = "idle"
  /\ th[c].op = "Create"
  /\ th[c].res = "StartErr"

\* thread c executes the rollback delete of CreateUserFolder in this step
RollsBack(c) == th[c].pc = "cr_rollback" /\ th'[c].pc # "cr_rollback"

\* what the rollback of a failed create achieves whatever the delete answers:
\* the call returns the error, the delete removes the row of the new id or
\* leaves the table as it is, and no runner and no status entry remain for
\* the id
C8_RollbackAttempted ==
  /\ [](\A c \in AllCallers :
         /\ th[c].pc \in {"cr_rollback", "cr_clear"} => th[c].err # ""
         /\ CreateFailed(c) =>
              /\ th[c].fid \notin DOMAIN runners
              /\ th[c].fid \notin DOMAIN statuses)
  /\ [][\A c \in AllCallers :
          RollsBack(c) =>
            \/ folders' = RepoDelete(folders, th[c].fid)
            \/ folders' = folders]_vars

\* a failed create whose rollback delete removed the row leaves no runner and
\* no status entry for the id
C8_RolledBackClean ==
  \A c \in AllCallers :
    (CreateFailed(c) /\ th[c].fid \notin DOMAIN folders)
      => /\ th[c].fid \notin DOMAIN runners
         /\ th[c].fid \notin DOMAIN statuses

\* C8: when CreateUserFolder is called with enabled = true and starting the
\* runner fails, the call returns the error, and afterwards the folder is not
\* in the table, no runner is registered for its id and the status map has no
\* entry for its id.
C8_CreateRollback ==
  \A c \in AllCallers :
    /\ th[c].pc \in {"cr_rollback", "cr_clear"} => th[c].err # ""
    /\ CreateFailed(c) =>
         /\ th[c].fid \notin DOMAIN folders
         /\ th[c].fid \notin DOMAIN runners
         /\ th[c].fid \notin DOMAIN statuses

\* the step in which SetUserFolderEnabled(true) of thread 1 returns the error
\* of a failed start
EnableFailedReturn ==
  th[1].pc = "se_revert" /\ th'[1].pc = "idle" /\ th'[1].res = "StartErr"

\* C9: when SetUserFolderEnabled(true) returns the start error, the
\* flag is false again, no runner is registered, and the status has
\* Active = false and the start error in LastRuntimeError.
C9_EnableRollback_Stated ==
  [][EnableFailedReturn =>
       /\ ~folders'[th[1].fid].Enabled
       /\ th[1].fid \notin DOMAIN runners'
       /\ ~StatusOf(statuses', th[1].fid).Active
       /\ StatusOf(statuses', th[1].fid).LastRuntimeError = "start failed"]_vars

\* the value of LastRuntimeError is one that a goroutine of an earlier runner
\* of the folder has written: an import attempt that has recorded its
\* outcome, or the run loop that failed to watch a new subdirectory
WrittenByRunner(ts, ro, id, e) ==
  \/ /\ e \in {"", "did not stabilize", "cannot import directory", "import failed"}
     /\ \E t \in DOMAIN ts : /\ ro[ts[t].rid].fid = id
                              /\ ts[t].st \in {"tail", "done"}
  \/ /\ e = "failed to watch"
     /\ \E r \in DOMAIN ro : ro[r].fid = id /\ ro[r].stopCh

\* what holds of a failed enable whatever the revert update answers: the
\* failed start writes Active = false and the start error into the status;
\* when the call returns the error, the flag is false again unless the revert
\* update stored nothing, no runner is registered, Active is false, and
\* LastRuntimeError is the start error unless a goroutine of an earlier
\* runner of the folder (an import attempt that was still executing, or its
\* run loop) has written the status since.
C9_RevertAttempted ==
  /\ [][(th[1].pc = "sr_start" /\ th[1].ret = "se" /\ th'[1].pc = "se_revert")
          => /\ th'[1].err # ""
             /\ ~StatusOf(statuses', th[1].fid).Active
             /\ StatusOf(statuses', th[1].fid).LastRuntimeError = "start failed"]_vars
  /\ [][EnableFailedReturn =>
          /\ \/ folders' = RepoUpdate(folders, th[1].fid, FALSE)
             \/ folders' = folders
          /\ th[1].fid \notin DOMAIN runners'
          /\ ~StatusOf(statuses', th[1].fid).Active
          /\ \/ StatusOf(statuses', th[1].fid).LastRuntimeError = "start failed"
             \/ WrittenByRunner(tasks', robj', th[1].fid,
                                StatusOf(statuses', th[1].fid).LastRuntimeError)]_vars

\* the persisted flag after a failed enable: false again
C9_FlagReverted ==
  [][EnableFailedReturn => ~folders'[th[1].fid].Enabled]_vars

\* the status after a failed enable: still the start error
C9_ErrorKept ==
  [][EnableFailedReturn =>
       StatusOf(statuses', th[1].fid).LastRuntimeError = "start failed"]_vars

\* thread 1 enters SetUserFolderEnabled on one of the caller's folders with
\* the value the persisted flag already has
SameValueCall ==
  /\ th[1].pc = "idle"
  /\ th'[1].pc # "idle"
  /\ th'[1].op = "SetEnabled"
  /\ th'[1].fid \in DOMAIN folders
  /\ folders[th'[1].fid].Enabled = th'[1].en

\* C10: SetUserFolderEnabled with the value the persisted flag already has
\* writes nothing to the table, starts and stops no runner and changes no
\* status, from the call to its return; so an enabled folder whose start
\* failed is not retried by SetUserFolderEnabled(true).
C10_SameValueNoOp ==
  /\ [][SameValueCall =>
          /\ th'[1].noop
          /\ th'[1].pc = "se_view"
          /\ UNCHANGED <<folders, runners, statuses, robj, tasks>>]_vars
  /\ [][(th[1].noop /\ th[1].pc # "idle" /\ th'[1] # th[1])
          => /\ \/ th[1].pc = "se_view" /\ th'[1].pc = "gv_status"
                \/ /\ th[1].pc = "gv_status" /\ th'[1].pc = "idle"
                   /\ th'[1].res = "ok"
             /\ UNCHANGED <<folders, runners, statuses, robj, tasks>>]_vars
  /\ [](\A c \in Threads : th[c].pc \in {"se_update", "sr_check", "sr_start", "sr_reg", "stopr"}
                             => ~th[c].noop)

\* SetUserFolderEnabled(true) has returned on an enabled folder whose start
\* had failed: still no runner, still inactive, the error still there
C10_Witness ==
  /\ th[1].pc = "idle"
  /\ th[1].op = "SetEnabled"
  /\ th[1].en
  /\ th[1].noop
  /\ th[1].res = "ok"
  /\ th[1].fid \in DOMAIN folders
  /\ folders[th[1].fid].Enabled
  /\ th[1].fid \notin DOMAIN runners
  /\ ~StatusOf(statuses, th[1].fid).Active
  /\ StatusOf(statuses, th[1].fid).LastRuntimeError = "start failed"

\* ListUserFolders of thread c has returned, and the call directly followed a
\* successful CreateUserFolder(enabled = en) of the same user by that thread
ListedAfterCreate(c, en) ==
  /\ th[c].pc = "idle"
  /\ th[c].op = "List"
  /\ th[c].res = "ok"
  /\ th[c].after = "Create"
  /\ th[c].en = en

\* the returned list shows the folder with this Active
Shows(c, id, active) ==
  \E i \in 1..Len(th[c].views) :
    th[c].views[i].ID = id /\ th[c].views[i].Active = active

\* the first half of C11: after CreateUserFolder(enabled = true) the list
\* shows the folder with active = true
C11_EnabledListedActive ==
  \A c \in AllCallers :
    ListedAfterCreate(c, TRUE) =>
      Shows(c, th[c].fid, TRUE) /\ th[c].fid \in DOMAIN runners

\* C11: a successful CreateUserFolder followed immediately by ListUserFolders
\* of the same user shows the folder with active = true when it was created
\* with enabled = true; when it was created with enabled = false the list
\* shows it with active = false and no runner is registered for it.
C11_CreateThenList ==
  /\ C11_EnabledListedActive
  /\ \A c \in AllCallers :
       ListedAfterCreate(c, FALSE) =>
         Shows(c, th[c].fid, FALSE) /\ th[c].fid \notin DOMAIN runners

\* Start has returned and nothing has been stopped since
Restored ==
  /\ svc = "started"
  /\ th[Bootstrap].pc = "idle"
  /\ th[Bootstrap].op = "Start"

EnabledIds == {i \in DOMAIN folders : folders[i].Enabled}

\* C12: when Start returns, the folders whose start failed (F, the failures
\* it collected) are enabled folders; Start returns an error exactly when F is
\* not empty; every enabled folder outside F has a registered, running runner
\* and Active = true; every folder in F has no runner, Active = false and the
\* start error in LastRuntimeError; no disabled folder has a runner.
C12_StartAggregates ==
  Restored =>
    LET F == th[Bootstrap].fails
    IN /\ F \subseteq EnabledIds
       /\ (th[Bootstrap].res = "AggErr") <=> (F # {})
       /\ th[Bootstrap].res \in {"ok", "AggErr"}
       /\ DOMAIN runners = EnabledIds \ F
       /\ \A i \in EnabledIds \ F :
            /\ ~robj[runners[i]].stopCh
            /\ robj[runners[i]].fid = i
            /\ StatusOf(statuses, i).Active
       /\ \A i \in F :
            /\ ~StatusOf(statuses, i).Active
            /\ StatusOf(statuses, i).LastRuntimeError = "start failed"

\* Start returned an error for one folder while another one is being watched
C12_Witness ==
  /\ Restored
  /\ th[Bootstrap].res = "AggErr"
  /\ \E i, j \in EnabledIds :
       /\ i \in th[Bootstrap].fails
       /\ j \notin th[Bootstrap].fails
       /\ i < j
       /\ j \in DOMAIN runners

\* the step in which Stop() returns
StopReturns == th[Bootstrap].pc = "sp_loop" /\ svc' = "stopped"

\* every runner ever registered has been stopped: stopCh closed, watch handle
\* closed, stop() returned
AllStopped(ro) ==
  \A r \in DOMAIN ro : ro[r].stopCh /\ ~ro[r].watcherOpen /\ ro[r].stopRet

\* the part of C13 about the registry: the critical section of Stop empties
\* the runner map and marks every status inactive before any runner is
\* stopped, and when Stop returns the map is empty, every status is inactive
\* and every runner has been stopped
C13_Registry ==
  /\ [][(th[Bootstrap].pc = "idle" /\ th'[Bootstrap].op = "Stop"
           /\ th'[Bootstrap].pc = "sp_loop")
          => /\ runners' = EmptyMap
             /\ \A i \in DOMAIN statuses' : ~statuses'[i].Active
             /\ DOMAIN statuses' = DOMAIN statuses
             /\ robj' = robj
             /\ tasks' = tasks
             /\ \A i \in DOMAIN runners :
                  \E k \in 1..Len(th'[Bootstrap].list) :
                    th'[Bootstrap].list[k] = runners[i]]_vars
  /\ [][StopReturns =>
          /\ runners' = EmptyMap
          /\ \A i \in DOMAIN statuses' : ~statuses'[i].Active
          /\ AllStopped(robj')]_vars

\* C13: when Stop returns, the runner map is empty, every status has
\* Active = false, and every runner that was registered has been stopped, with
\* its watch handle closed and no timer of it left pending; the runners are
\* detached and the statuses marked in one critical section before any runner
\* is stopped.
C13_StopDetachesAll ==
  /\ C13_Registry
  /\ [][StopReturns =>
          \A t \in DOMAIN tasks' : tasks'[t].st # "pending"]_vars

\* C14: Stop() and folderRunner.stop() always terminate: once Stop has been
\* called it returns, and every stop() it calls returns, whether or not the
\* run loop of the runner ever exits and whether or not an import is running.
C14_StopTerminates ==
  /\ (svc = "stopping") ~> (svc = "stopped")
  /\ (th[Bootstrap].pc \in {"rs_check", "rs_close", "rs_wclose", "rs_timers", "rs_wait"})
       ~> (th[Bootstrap].pc = "sp_loop")

\* Stop has returned although a run loop has not exited and an import attempt
\* is still running
C14_Witness ==
  /\ svc = "stopped"
  /\ \E r \in DOMAIN robj : ~robj[r].doneCh /\ robj[r].stopRet
  /\ \E t \in DOMAIN tasks : tasks[t].st \in {"stabilizing", "importing"}

\* the folder ids of a sequence of rows or of views
IdsOf(seq) == {seq[k].ID : k \in 1..Len(seq)}

\* what the caller must see for a row, given the stored status
Merged(v, row, st) ==
  /\ v.ID = row.ID
  /\ v.Enabled = row.Enabled
  /\ v.Active = (row.Enabled /\ StatusOf(st, row.ID).Active)
  /\ v.LastRuntimeError = StatusOf(st, row.ID).LastRuntimeError

\* C15: ListUserFolders(user) reads exactly the rows owned by user, returns
\* one view for each of them and no other, each view being the row merged with
\* the status stored at that moment, with Active = false for a row whose
\* enabled flag is false whatever the stored Active is; no step of the listing
\* changes the status map, the runner map or the table.
C15_ListMerges ==
  [][\A c \in AllCallers :
       /\ (th[c].pc = "idle" /\ th'[c].pc = "ls_loop")
            => /\ IdsOf(th'[c].list)
                    = {i \in DOMAIN folders : folders[i].UserID = th'[c].user}
               /\ Len(th'[c].list) = Cardinality(IdsOf(th'[c].list))
               /\ \A k \in 1..Len(th'[c].list) :
                    th'[c].list[k] = folders[th'[c].list[k].ID]
               /\ th'[c].views = << >>
               /\ UNCHANGED <<folders, runners, statuses, robj>>
       /\ (th[c].pc = "ls_loop" /\ th'[c] # th[c])
            => /\ UNCHANGED <<folders, runners, statuses, robj>>
               /\ IF th[c].list = << >>
                  THEN /\ th'[c].pc = "idle"
                       /\ th'[c].res = "ok"
                       /\ th'[c].views = th[c].views
                  ELSE /\ th'[c].pc = "ls_loop"
                       /\ th'[c].list = Tail(th[c].list)
                       /\ Len(th'[c].views) = Len(th[c].views) + 1
                       /\ SubSeq(th'[c].views, 1, Len(th[c].views)) = th[c].views
                       /\ Merged(th'[c].views[Len(th'[c].views)],
                                 Head(th[c].list), statuses)]_vars

\* a list has been returned that shows a disabled folder inactive while the
\* status map still says Active = true for it
C15_Witness ==
  /\ th[2].pc = "idle"
  /\ th[2].op = "List"
  /\ th[2].res = "ok"
  /\ \E k \in 1..Len(th[2].views) :
       LET v == th[2].views[k]
       IN /\ ~v.Enabled
          /\ ~v.Active
          /\ v.ID \in DOMAIN folders
          /\ ~folders[v.ID].Enabled
          /\ StatusOf(statuses, v.ID).Active

\* thread c is inside startRunner (or inside the stop() it calls)
InStartRunner(c) ==
  th[c].pc \in {"sr_check", "sr_start", "sr_reg", "rs_check", "rs_close",
                "rs_wclose", "rs_timers", "rs_wait"}

\* the runners created for a folder id that have not been stopped
LiveRunners(id) == {r \in DOMAIN robj : robj[r].fid = id /\ ~robj[r].stopCh}

\* C16: a startRunner call that finds a runner registered for the folder id
\* returns success, sets Active = true and leaves the runner map and every
\* runner untouched; and whenever no startRunner call is in progress, the
\* runners of a folder id that have not been stopped are exactly the registered
\* one, if there is one, and none otherwise.
C16_StartRunnerIdempotent ==
  /\ [][\A c \in Threads :
          (th[c].pc = "sr_check" /\ th'[c] # th[c] /\ th[c].fid \in DOMAIN runners)
            => /\ th'[c].err = ""
               /\ th'[c].pc = AfterStart(th[c].ret, "")
               /\ runners' = runners
               /\ robj' = robj
               /\ StatusOf(statuses', th[c].fid).Active]_vars
  /\ []((\A c \in Threads : ~InStartRunner(c)) =>
          \A id \in FolderIds :
            LiveRunners(id) = IF id \in DOMAIN runners THEN {runners[id]} ELSE {})

\* two overlapping calls each created a runner for the same folder; both have
\* returned; one runner is registered and the other has been stopped
C16_Witness ==
  /\ \A c \in AllCallers : th[c].pc = "idle" /\ th[c].op = "SetEnabled" /\ th[c].res = "ok"
  /\ th[1].fid = th[2].fid
  /\ \E r, q \in DOMAIN robj :
       /\ r # q
       /\ robj[r].fid = th[1].fid
       /\ robj[q].fid = th[1].fid
       /\ runners[th[1].fid] = r
       /\ ~robj[r].stopCh
       /\ robj[q].stopCh

\* poll k reads the same size and modification time as the poll before it
Unchanged(polls, k) == k > 1 /\ polls[k] = polls[k - 1]

\* within the budget of threshold + 2 polls every poll finds a regular file,
\* and there are never three consecutive unchanged polls
Changing(polls) ==
  /\ Len(polls) >= stabilityChecks + 2
  /\ \A k \in 1..(stabilityChecks + 2) : polls[k].kind = "file"
  /\ ~\E k \in 2..stabilityChecks :
        \A j \in k..(k + stabilityChecks - 1) : Unchanged(polls, j)

ChangingRuns == {polls \in ProbeRuns : Changing(polls)}

\* what the stability check returns on these runs
ChangingResults == {waitForStableFile(polls) : polls \in ChangingRuns}

\* the import attempt t leaves the stability check in this step with the
\* stabilization timeout to record, and nothing imported
TimedOut(t) ==
  /\ tasks'[t].st = "failed"
  /\ tasks'[t].err = "did not stabilize"
  /\ jobs' = jobs
  /\ robj' = robj

\* the import attempt t records its failure in this step
RecordsFailure(t) == tasks[t].st = "failed" /\ tasks'[t].st # "failed"

\* the failure of t is in LastRuntimeError of its folder; no job is created
\* and no signature recorded; the attempt goes to the tail of the callback
FailureWritten(t) ==
  LET r == tasks[t].rid
  IN /\ tasks[t].err # ""
     /\ tasks'[t].st = "tail"
     /\ StatusOf(statuses', robj[r].fid).LastRuntimeError = tasks[t].err
     /\ jobs' = jobs
     /\ robj'[r].imported = robj[r].imported

\* C17: when the file of an import attempt changes so that three consecutive
\* unchanged polls never occur within the first threshold + 2 = 5 polls,
\* whatever a later poll would read, waitForStableFile reports the timeout
\* and processCandidate records it in LastRuntimeError of the folder, creates
\* no job and records no signature.
C17_NeverStableTimesOut ==
  /\ [](\A w \in ChangingResults : w.res = "timeout")
  /\ [][\A t \in DOMAIN tasks :
          /\ (tasks[t].st = "stabilizing" /\ tasks'[t].st # "stabilizing")
               => \/ TimedOut(t)
                  \/ ~\E w \in ChangingResults : processCandidate_With(t, w)
          /\ RecordsFailure(t) => FailureWritten(t)]_vars

\* an import attempt has ended with the stabilization timeout: no job, no
\* recorded signature
C17_Witness ==
  \E t \in DOMAIN tasks :
    /\ tasks[t].st = "done"
    /\ StatusOf(statuses, robj[tasks[t].rid].fid).LastRuntimeError = "did not stabilize"
    /\ jobs = << >>
    /\ robj[tasks[t].rid].imported = EmptyMap

\* the extensions the specification lists as supported media
SupportedMedia ==
  {"mp3", "wav", "flac", "m4a", "aac", "ogg", "wma", "aiff", "mp4", "mov",
   "mkv", "webm", "avi"}

\* create or write event on a path whose extension, lower-cased, is supported
Qualifies(e) == e.op \in {"Create", "Write"} /\ Lower[e.name.ext] \in SupportedMedia

\* C18: when a run loop has handled an event, a timer has been scheduled only
\* if the event is a create or write event on a path whose extension, compared
\* case-insensitively, is a supported one; after any other event the timers
\* are as before; and no job is ever created for a path whose extension is not
\* supported.
C18_OnlyMediaScheduled ==
  /\ [][\A r \in DOMAIN robj :
          (robj[r].loop = "handle" /\ robj'[r].loop # "handle")
            => \/ Qualifies(robj[r].cur)
               \/ (tasks' = tasks /\ robj'[r].timers = robj[r].timers)]_vars
  /\ [](\A t \in DOMAIN tasks : Lower[tasks[t].path.ext] \in SupportedMedia)
  /\ [](\A j \in DOMAIN jobs : Lower[jobs[j].src.ext] \in SupportedMedia)

\* a file with an upper-case media extension has been imported
C18_Witness ==
  \E j \in DOMAIN jobs : jobs[j].src.ext = "MP3" /\ ~jobs[j].src.dir

\* C19: for a recursive folder in Watching state, a qualifying file dropped
\* into a subdirectory created after the watch started is eventually imported
\* (or its failure is recorded) whatever the order of the subdirectory's
\* create event, the attaching of its watch and the creation of the file; for
\* a non-recursive folder a directory-create event never adds a watch.
FileDropped ==
  /\ fs.tracked /\ fs.file
  /\ \E r \in RunnerIds :
       robj[r].fid = TreeFolder /\ robj[r].watcherOpen /\ robj[r].recursive

FileSettled ==
  \/ \E j \in DOMAIN jobs : jobs[j].fid = TreeFolder /\ jobs[j].src = SubFile
  \/ StatusOf(statuses, TreeFolder).LastRuntimeError # ""

NonRecursiveAddsNoWatch ==
  \A r \in RunnerIds : (robj[r].fid = TreeFolder /\ ~robj[r].recursive)
                          => ~fs.watched

C19_NonRecursive == fs.tracked => NonRecursiveAddsNoWatch

C19_SubdirFileImported ==
  /\ [](fs.tracked => NonRecursiveAddsNoWatch)
  /\ (FileDropped ~> FileSettled)

\* the runner r is where it was before the step: registered as before, its
\* run loop running if it was running, its watcher and its channels untouched
StaysWatching(r) ==
  /\ runners' = runners
  /\ robj[r].loop # "exited" => robj'[r].loop # "exited"
  /\ robj'[r].watcherOpen = robj[r].watcherOpen
  /\ robj'[r].stopCh = robj[r].stopCh
  /\ robj'[r].doneCh = robj[r].doneCh

Recorded(r, e) == StatusOf(statuses', robj[r].fid).LastRuntimeError = e

TimeoutRuns == {polls \in LifePolls : waitForStableFile(polls).res = "timeout"}

\* the failures of the asynchronous path, each with what it must leave
WatcherErrorKept ==
  /\ nerr' # nerr =>
       \E r \in RunnerIds :
         /\ RunRecvError(r)
         /\ robj'[r].loop = "error"
         /\ StaysWatching(r)
  /\ \A r \in RunnerIds :
       (robj[r].loop = "error" /\ robj'[r].loop # "error")
         => /\ Recorded(r, "watcher error")
            /\ StaysWatching(r)
            /\ robj'[r].loop = "select"

AddWatchFailureKept ==
  \A r \in RunnerIds :
    (robj[r].loop = "handle" /\ robj'[r].loop # "handle"
     /\ EventKind(robj[r].recursive, robj[r].cur) = "addwatch")
      => \/ Recorded(r, "failed to watch") /\ StaysWatching(r)
                                           /\ robj'[r].loop = "select"
         \/ ~handleEvent_Add(r, FALSE)

TimeoutKept ==
  \A t \in DOMAIN tasks :
    (tasks[t].st = "stabilizing" /\ tasks'[t].st # "stabilizing")
      => \/ /\ tasks'[t].st = "failed"
            /\ tasks'[t].err = "did not stabilize"
            /\ StaysWatching(tasks[t].rid)
            /\ robj'[tasks[t].rid].loop = robj[tasks[t].rid].loop
         \/ ~\E polls \in TimeoutRuns : processCandidate(t, {polls})

ImportFailureKept ==
  \A t \in DOMAIN tasks :
    (tasks[t].st = "importing" /\ tasks'[t].st # "importing" /\ jobs' = jobs)
      => /\ tasks'[t].st = "failed"
         /\ tasks'[t].err = "import failed"
         /\ StaysWatching(tasks[t].rid)
         /\ robj'[tasks[t].rid].loop = robj[tasks[t].rid].loop

\* the failure an import attempt has met is recorded by its next step
FailureKept ==
  \A t \in DOMAIN tasks :
    RecordsFailure(t)
      => /\ FailureWritten(t)
         /\ StaysWatching(tasks[t].rid)
         /\ robj'[tasks[t].rid].loop = robj[tasks[t].rid].loop

\* a qualifying event is received whatever error is recorded, and handling it
\* arms a debounce timer
LaterEventHandled ==
  \A r \in RunnerIds :
    /\ (robj[r].loop = "select" /\ robj[r].watcherOpen /\ nev <= MaxLifeEvents)
         => \A e \in LifeEvents : ENABLED RunRecvEvent(r, e, MaxLifeEvents + 1)
    /\ (robj[r].loop = "handle" /\ robj'[r].loop # "handle"
        /\ EventKind(robj[r].recursive, robj[r].cur) = "schedule")
         => /\ Len(tasks') = Len(tasks) + 1
            /\ tasks'[Len(tasks')].st = "pending"
            /\ tasks'[Len(tasks')].rid = r
            /\ robj'[r].loop = "select"

\* only stop() ends a run loop
OnlyStopEnds == \A r \in RunnerIds : robj[r].loop = "exited" => robj[r].stopCh

\* C20: a watcher-level error, a failed add-watch on a new subdirectory, a
\* stabilization timeout and an import failure each record the error in the
\* folder's LastRuntimeError and leave the runner registered with its run
\* loop running; a later qualifying event is still received and handled;
\* only stop() ends the run loop.
C20_FailuresKeepWatching ==
  /\ []OnlyStopEnds
  /\ [][/\ WatcherErrorKept
        /\ AddWatchFailureKept
        /\ TimeoutKept
        /\ ImportFailureKept
        /\ FailureKept
        /\ LaterEventHandled]_vars

\* a registered runner, not stopped, whose folder has a recorded failure, is
\* handling a qualifying event received after a failed import
C20_Witness ==
  \E r \in RunnerIds :
    /\ robj[r].fid \in DOMAIN runners /\ runners[robj[r].fid] = r
    /\ ~robj[r].stopCh
    /\ StatusOf(statuses, robj[r].fid).LastRuntimeError = "import failed"
    /\ \E t \in DOMAIN tasks : tasks[t].rid = r /\ tasks[t].st = "done"
    /\ ~\E t \in DOMAIN tasks : tasks[t].rid = r /\ tasks[t].st # "done"
    /\ robj[r].loop = "handle"
    /\ EventKind(robj[r].recursive, robj[r].cur) = "schedule"

\* the import attempt t creates its job record in this step
Creates(t) ==
  tasks[t].st = "importing" /\ tasks'[t].st # "importing" /\ jobs' # jobs

\* importFile has returned nil to the import attempt t: its job exists
Succeeded(t) ==
  /\ tasks[t].st \in {"record", "mark"}
  /\ tasks[t].job \in DOMAIN jobs
  /\ jobs[tasks[t].job].src = tasks[t].path
  /\ jobs[tasks[t].job].rid = tasks[t].rid
  /\ tasks[t].st = "record" => jobs[tasks[t].job].sig = tasks[t].sig

\* the import attempt t executes recordImported in this step
Records(t) == tasks[t].st = "record" /\ tasks'[t].st # "record"

\* the import attempt t executes markImported in this step
Marks(t) == tasks[t].st = "mark" /\ tasks'[t].st # "mark"

\* C21: a successful import creates exactly one job record, with status
\* uploaded (pending once auto-transcription has given it a profile) and the
\* base name of the source file as title; it records the stabilized signature
\* of the path in the imported map of the runner and sets LastImportedFile to
\* the source path, LastImportedAt to the import time and LastRuntimeError to
\* empty.
C21_ImportRecords ==
  /\ [](\A t \in DOMAIN tasks :
         tasks[t].st \in {"record", "mark"} => Succeeded(t))
  /\ [][\A t \in DOMAIN tasks :
          /\ Creates(t) =>
               /\ Len(jobs') = Len(jobs) + 1
               /\ \A i \in DOMAIN jobs : jobs'[i] = jobs[i]
               /\ tasks'[t].st = "user"
               /\ tasks'[t].job = Len(jobs')
               /\ LET j == jobs'[Len(jobs')]
                  IN /\ j.Title = <<tasks[t].path.stem, tasks[t].path.ext>>
                     /\ j.src = tasks[t].path
                     /\ j.Parameters = NoParams
                     /\ j.Status = "uploaded"
          /\ (tasks[t].st \in QueueStages /\ tasks'[t].st # tasks[t].st)
               => /\ Len(jobs') = Len(jobs)
                  /\ tasks'[t].st \in QueueStages \cup {"record"}
                  /\ \A i \in DOMAIN jobs :
                       jobs'[i] # jobs[i] =>
                         /\ i = tasks[t].job
                         /\ jobs'[i].Title = jobs[i].Title
                         /\ jobs'[i].Status \in {"uploaded", "pending"}
                         /\ jobs'[i].Status = "pending"
                              => jobs'[i].Parameters # NoParams
          /\ (tasks[t].st = "enqueue" /\ tasks'[t].st # "enqueue")
               => tasks'[t].st = IF jobs'[tasks[t].job].queued
                                 THEN "record" ELSE "revert"
          /\ Records(t) =>
               LET r == tasks[t].rid
               IN /\ tasks'[t].st = "mark"
                  /\ tasks[t].path \in DOMAIN robj'[r].imported
                  /\ robj'[r].imported[tasks[t].path] = tasks[t].sig
                  /\ tasks[t].sig # NoSig
          /\ Marks(t) =>
               LET st == StatusOf(statuses', robj[tasks[t].rid].fid)
               IN /\ tasks'[t].st = "tail"
                  /\ st.LastImportedFile = tasks[t].path
                  /\ st.LastImportedAt > 0
                  /\ st.LastRuntimeError = ""]_vars

\* an import has succeeded for a user without auto-transcription: one job,
\* uploaded, titled a.mp3, its signature recorded, the status updated
C21_Witness ==
  /\ Len(jobs) = 1
  /\ jobs[1].Status = "uploaded" /\ jobs[1].Parameters = NoParams
  /\ jobs[1].Title = <<"a", "mp3">>
  /\ \E t \in DOMAIN tasks :
       /\ tasks[t].st = "done"
       /\ tasks[t].path \in DOMAIN robj[tasks[t].rid].imported
       /\ robj[tasks[t].rid].imported[tasks[t].path] = jobs[1].sig
       /\ StatusOf(statuses, jobs[1].fid).LastImportedFile = tasks[t].path
       /\ StatusOf(statuses, jobs[1].fid).LastRuntimeError = ""

\* importFile returns an error to the import attempt t in this step: the
\* access to the source, the copy or the job creation failed
FailsBeforeJob(t) ==
  tasks[t].st = "importing" /\ tasks'[t].st # "importing" /\ jobs' = jobs

\* EnqueueJob refuses the job of the import attempt t in this step
FailsAtEnqueue(t) ==
  /\ tasks[t].st = "enqueue" /\ tasks'[t].st # "enqueue"
  /\ ~jobs'[tasks[t].job].queued

\* the attempt goes on to record the failure, and not the signature, so that
\* the same file passes the duplicate check as it did before
FailureRecorded(t) ==
  /\ tasks'[t].st = "failed"
  /\ tasks'[t].err # ""
  /\ robj' = robj

C22_BeforeJob ==
  [][\A t \in DOMAIN tasks :
       /\ FailsBeforeJob(t) => FailureRecorded(t)
       /\ RecordsFailure(t) => FailureWritten(t)]_vars

\* C22: when an import fails because the copy, the job creation or the
\* enqueue fails, the failure is recorded in LastRuntimeError and the
\* signature of the path is not recorded as imported, so that the next
\* qualifying event on the unchanged file starts a new import attempt.
C22_FailedImportRetried ==
  [][\A t \in DOMAIN tasks :
       /\ (FailsBeforeJob(t) \/ FailsAtEnqueue(t)) => FailureRecorded(t)
       /\ RecordsFailure(t) => FailureWritten(t)]_vars

\* the importer has finished with job j: maybeQueueAutoTranscription has
\* returned to the import attempt that created it
Finished(j) ==
  ~\E t \in DOMAIN tasks : tasks[t].st \in QueueStages /\ tasks[t].job = j

\* a pending job that the queue has not accepted has been through a refused
\* EnqueueJob call
C23_StuckOnlyAfterRefusal ==
  \A j \in DOMAIN jobs :
    (Finished(j) /\ jobs[j].Status = "pending" /\ ~jobs[j].queued)
      => jobs[j].calls = 1

\* C23: after the importer has finished with a job, the persisted job has
\* status pending only if the job queue accepted it, whatever job-storage
\* updates succeed or fail.
C23_PendingOnlyIfQueued ==
  \A j \in DOMAIN jobs :
    (Finished(j) /\ jobs[j].Status = "pending") => jobs[j].queued

\* thread c takes this step inside a SetUserFolderEnabled call
TogglerStep(c) ==
  th[c].op = "SetEnabled" /\ th[c].pc # "idle" /\ th'[c] # th[c]

\* the ids that have or get a status entry
StatusIds == DOMAIN statuses \cup DOMAIN statuses'

LastImportSame(id) ==
  /\ StatusOf(statuses', id).LastImportedAt = StatusOf(statuses, id).LastImportedAt
  /\ StatusOf(statuses', id).LastImportedFile
       = StatusOf(statuses, id).LastImportedFile

LastErrorSame(id) ==
  StatusOf(statuses', id).LastRuntimeError = StatusOf(statuses, id).LastRuntimeError

\* a status entry is removed only by the clearStatus of DeleteUserFolder (or
\* of the rollback of CreateUserFolder)
RemovedOnlyByDelete ==
  (DOMAIN statuses \ DOMAIN statuses' # {})
    => \E c \in AllCallers :
         /\ th[c].pc \in {"del_clear", "cr_clear"}
         /\ th'[c] # th[c]
         /\ DOMAIN statuses \ DOMAIN statuses' = {th[c].fid}

\* C24 as stated: no step of a SetUserFolderEnabled call that does not fail
\* changes LastRuntimeError, LastImportedAt or LastImportedFile of a folder,
\* or anything of another folder's status; the entry is removed only by
\* deleting the folder.
C24_OnlyActiveFlips ==
  [][/\ RemovedOnlyByDelete
     /\ \A c \in AllCallers :
          (TogglerStep(c) /\ th'[c].err = "")
            => \A id \in StatusIds :
                 /\ LastImportSame(id)
                 /\ LastErrorSame(id)
                 /\ id # th[c].fid => StatusOf(statuses', id) = StatusOf(statuses, id)]_vars

\* C24, amended: a SetUserFolderEnabled call never changes LastImportedAt and
\* LastImportedFile, nor anything of another folder's status; disabling
\* changes only Active; enabling changes LastRuntimeError only where
\* runner.start records a failure and where the registration of the new
\* runner resets it to empty; the entry is removed only by deleting the
\* folder.
C24_ToggleFrame ==
  [][/\ RemovedOnlyByDelete
     /\ \A c \in AllCallers :
          TogglerStep(c)
            => \A id \in StatusIds :
                 /\ LastImportSame(id)
                 /\ id # th[c].fid => StatusOf(statuses', id) = StatusOf(statuses, id)
                 /\ \/ LastErrorSame(id)
                    \/ /\ th[c].en /\ th[c].pc = "sr_start"
                       /\ StatusOf(statuses', id).LastRuntimeError
                            \in {"start failed", "failed to watch"}
                    \/ /\ th[c].en /\ th[c].pc = "sr_reg"
                       /\ id \notin DOMAIN runners /\ id \in DOMAIN runners'
                 /\ (th[c].pc = "sr_reg" /\ id = th[c].fid
                     /\ id \notin DOMAIN runners)
                      => /\ StatusOf(statuses', id).LastRuntimeError = ""
                         /\ StatusOf(statuses', id).Active]_vars

\* a folder that imported a file under an earlier runner has been disabled
\* and enabled again: the call has returned, a new runner is registered and
\* the last import is still in the status
C24_Witness ==
  /\ th[1].op = "SetEnabled" /\ th[1].pc = "idle" /\ th[1].en
  /\ th[1].res = "ok" /\ ~th[1].noop
  /\ th[1].fid \in DOMAIN runners
  /\ StatusOf(statuses, th[1].fid).Active
  /\ StatusOf(statuses, th[1].fid).LastImportedAt > 0
  /\ \E j \in DOMAIN jobs :
       jobs[j].fid = th[1].fid /\ jobs[j].rid # runners[th[1].fid]

\* the debounce tasks of runner r and path p that are pending or executing
\* their callback
LiveTasks(r, p) ==
  {t \in TaskIds : /\ tasks[t].rid = r /\ tasks[t].path = p
                   /\ tasks[t].st \in {"pending", "stabilizing", "importing",
                                        "failed", "record", "mark", "tail"}
                                         \cup QueueStages}

OneLiveTask ==
  \A t, u \in TaskIds :
    (SameFile(t, u) /\ t \in LiveTasks(tasks[t].rid, tasks[t].path)
                    /\ u \in LiveTasks(tasks[u].rid, tasks[u].path)) => t = u

EntryIsLiveTask ==
  \A t \in TaskIds :
    t \in LiveTasks(tasks[t].rid, tasks[t].path)
      => /\ tasks[t].path \in DOMAIN robj[tasks[t].rid].timers
         /\ robj[tasks[t].rid].timers[tasks[t].path] = t

RemovesOwnEntry ==
  \A t \in TaskIds :
    (tasks[t].st # "done" /\ tasks'[t].st = "done")
      => \A p \in DOMAIN robj[tasks[t].rid].timers :
           p \notin DOMAIN robj'[tasks[t].rid].timers
             => robj[tasks[t].rid].timers[p] = t

\* C25: for one runner and one path at most one debounce task is pending or
\* executing processCandidate, the timers entry of the path refers to that
\* task, and a task that finishes removes only its own entry.
C25_OneTaskPerPath ==
  /\ [](OneLiveTask /\ EntryIsLiveTask)
  /\ [][RemovesOwnEntry]_vars

\* the polls the stability check makes at most
Budget(polls) ==
  IF Len(polls) < stabilityChecks + 2 THEN Len(polls) ELSE stabilityChecks + 2

\* at poll k the path has been a regular file at every poll so far, poll k
\* and the two before it each read the same size and modification time as
\* the poll before them, and the size is at least one byte
StableAt(polls, k) ==
  /\ \A j \in 1..k : polls[j].kind = "file"
  /\ k - (stabilityChecks - 1) >= 1
  /\ \A j \in (k - (stabilityChecks - 1))..k : Unchanged(polls, j)
  /\ polls[k].Size >= minimumAudioBytes

StablePolls(polls) == {k \in 1..Budget(polls) : StableAt(polls, k)}

FirstStable(polls) ==
  CHOOSE k \in StablePolls(polls) : \A j \in StablePolls(polls) : k <= j

Characterized(polls) ==
  LET w == waitForStableFile(polls)
  IN /\ w.res = "ok" <=> StablePolls(polls) # {}
     /\ w.res = "ok" =>
          w.sig = Sig(polls[FirstStable(polls)].Size,
                      polls[FirstStable(polls)].ModUnix)
     /\ StablePolls(polls) \subseteq (stabilityChecks + 1)..(stabilityChecks + 2)
     /\ (\A j \in 1..Budget(polls) : polls[j].kind = "file" /\ polls[j].Size = 0)
          => w.res = "timeout"

\* the poll runs on which the stability check does not return what the
\* characterization says
Uncharacterized == {polls \in ProbeRuns : ~Characterized(polls)}

\* the signatures read at the first stable poll of the runs that have one
StableSigs ==
  {Sig(polls[FirstStable(polls)].Size, polls[FirstStable(polls)].ModUnix) :
     polls \in {run \in ProbeRuns : StablePolls(run) # {}}}

\* C26: waitForStableFile declares a file stable exactly when, within at most
\* 5 polls, three consecutive polls each read the same size and modification
\* time as the poll before them and the size is at least 1 byte; the
\* signature is that of the poll at which this first happens; the first poll
\* never counts as unchanged, a change resets the count, and a 0-byte file
\* ends in the timeout.  An import attempt goes on to importFile only with
\* such a signature.
C26_StableExactly ==
  /\ [](Uncharacterized = {})
  /\ [][\A t \in DOMAIN tasks :
          (tasks[t].st = "stabilizing" /\ tasks'[t].st = "importing")
            => tasks'[t].sig \in StableSigs]_vars

\* a file that changed once and then stayed as it was has been imported with
\* the signature of its last polls
C26_Witness ==
  \E j \in DOMAIN jobs : jobs[j].sig = Sig(2, 2)

\* the path is gone at poll k of the stability check, which has not returned
\* before
VanishesAt(polls, k) ==
  /\ polls[k].kind = "gone"
  /\ \A j \in 1..(k - 1) : polls[j].kind = "file" /\ ~StableAt(polls, j)

VanishRuns ==
  {polls \in ProbeRuns : \E k \in 1..Budget(polls) : VanishesAt(polls, k)}

\* what the stability check returns on these runs
VanishResults == {waitForStableFile(polls) : polls \in VanishRuns}

\* processCandidate returns in this step to the tail of the callback with
\* nothing to record, and nothing else changes
Skipped(t) ==
  /\ tasks'[t].st = "tail"
  /\ tasks'[t].err = ""
  /\ statuses' = statuses
  /\ jobs' = jobs
  /\ robj' = robj

\* the tail of the callback of t touches only the timers of its runner
TailOnlyDropsTimer(t) ==
  (tasks[t].st = "tail" /\ tasks'[t].st # "tail")
    => /\ tasks'[t].st = "done"
       /\ statuses' = statuses
       /\ jobs' = jobs
       /\ robj'[tasks[t].rid].imported = robj[tasks[t].rid].imported

\* C27: when the path no longer exists at a poll of the stability check, the
\* check ends with the not-found result, not with the timeout, and
\* processCandidate records no runtime error, leaves the statuses as they
\* are, creates no job and records no signature.
C27_VanishedSkipped ==
  /\ [](\A w \in VanishResults : w.res = "notexist")
  /\ [][\A t \in DOMAIN tasks :
          /\ (tasks[t].st = "stabilizing" /\ tasks'[t].st # "stabilizing")
               => \/ Skipped(t)
                  \/ ~\E w \in VanishResults : processCandidate_With(t, w)
          /\ TailOnlyDropsTimer(t)]_vars

\* the only import attempt of a runner that is not yet registered has ended
\* without a job, a signature or an error: its file had vanished
C27_Witness ==
  \E r \in RunnerIds :
    /\ th[Bootstrap].pc = "sr_reg" /\ th[Bootstrap].rid = r
    /\ StatusOf(statuses, robj[r].fid) = ZeroStatus
    /\ robj[r].imported = EmptyMap
    /\ jobs = << >>
    /\ \E t \in DOMAIN tasks : tasks[t].rid = r /\ tasks[t].st = "done"

\* the import attempt t leaves position st in this step
Leaves(t, st) == tasks[t].st = st /\ tasks'[t].st # st

\* the job of the import attempt t is as jobRepo.Create stored it, and the
\* queue has not been called for it
Untouched(t) ==
  /\ jobs[tasks[t].job].Status = "uploaded"
  /\ jobs[tasks[t].job].Parameters = NoParams
  /\ jobs[tasks[t].job].calls = 0

\* the lookups follow the order of the claim: a user with a default profile
\* has it fetched first, and a fetched profile is the one applied; the system
\* default is asked for only without it, and the list only without both
LookupOrder(t) ==
  /\ Leaves(t, "user") =>
       \A env \in UserAnswers :
         \/ ~MQ_FindUser(t, {env})
         \/ env.user # "on"
         \/ IF env.default # NoProfile
            THEN tasks'[t].st = "byid" /\ tasks'[t].default = "U"
            ELSE tasks'[t].st = "sysdefault"
  /\ Leaves(t, "byid") =>
       \A env \in FetchAnswers :
         \/ ~MQ_FindByID(t, {env})
         \/ IF env.fetch
            THEN tasks'[t].st = "update" /\ tasks'[t].profile = "U"
            ELSE tasks'[t].st = "sysdefault"
  /\ Leaves(t, "sysdefault") =>
       \A env \in SysAnswers :
         \/ ~MQ_FindDefault(t, {env})
         \/ IF env.sys # NoProfile
            THEN tasks'[t].st = "update" /\ tasks'[t].profile = "S"
            ELSE tasks'[t].st = "list"
  /\ Leaves(t, "list") =>
       \A env \in ListAnswers :
         \/ ~MQ_List(t, {env})
         \/ IF ~env.listErr /\ env.list # << >>
            THEN tasks'[t].st = "update" /\ tasks'[t].profile = Head(env.list)
            ELSE tasks'[t].st = "record" /\ jobs' = jobs

\* the update stores the parameters of the chosen profile with the status
\* pending, whenever it is persisted
ProfileApplied(t) ==
  Leaves(t, "update") =>
    \A env \in UpdateAnswers :
      \/ ~MQ_Update(t, {env})
      \/ ~env.upd
      \/ LET j == jobs'[tasks[t].job]
         IN /\ j.Parameters = ProfileParams(tasks[t].profile)
            /\ j.Parameters.Profile = tasks[t].profile
            /\ j.Diarization = j.Parameters.Diarize
            /\ j.Status = "pending"
            /\ tasks'[t].st = "enqueue"

\* C28: for a user with auto-transcription enabled the profile applied to an
\* imported job is the user's default profile when it can be fetched,
\* otherwise the system default when there is one, otherwise the first
\* profile of the list; when there is none the job stays uploaded and
\* nothing is enqueued.
C28_ProfilePreference ==
  /\ [](\A t \in DOMAIN tasks :
         /\ tasks[t].st \in {"user", "byid", "sysdefault", "list", "update"}
              => Untouched(t)
         /\ tasks[t].st \in {"update", "updrevert"}
              => tasks[t].profile # NoProfile)
  /\ [][\A t \in DOMAIN tasks : LookupOrder(t) /\ ProfileApplied(t)]_vars

\* a job has been given the first profile of the list and queued
C28_Witness ==
  \E j \in DOMAIN jobs :
    /\ jobs[j].Parameters.Profile = "L"
    /\ jobs[j].Status = "pending"
    /\ jobs[j].queued

\* the import attempt t is about to call EnqueueJob: the record of its job is
\* persisted with status pending and a profile's parameters, and the queue
\* has not been called for it
ReadyToEnqueue(t) ==
  /\ tasks[t].job \in DOMAIN jobs
  /\ jobs[tasks[t].job].Status = "pending"
  /\ jobs[tasks[t].job].Parameters # NoParams
  /\ jobs[tasks[t].job].calls = 0

\* the queue is called in this step
QueueCalled == \E j \in DOMAIN jobs : jobs'[j].calls # jobs[j].calls

\* the user lookup has failed or the user has auto-transcription off:
\* maybeQueueAutoTranscription returns with the job as it was created
NotQueued(t) ==
  /\ tasks'[t].st = "record"
  /\ jobs' = jobs
  /\ jobs[tasks[t].job].Status = "uploaded"
  /\ jobs[tasks[t].job].Parameters = NoParams
  /\ jobs[tasks[t].job].calls = 0

\* C29: EnqueueJob is called for a job only when the owning user exists and
\* has auto-transcription enabled, only after the record of the job has been
\* persisted with status pending and the parameters of the profile, and at
\* most once per job; when auto-transcription is off or the user lookup
\* fails the job stays uploaded and the queue is not called.
C29_EnqueueOnlyWhenAuto ==
  /\ [](\A t \in DOMAIN tasks : tasks[t].st = "enqueue" => ReadyToEnqueue(t))
  /\ [](\A j \in DOMAIN jobs : jobs[j].calls <= 1)
  /\ [][/\ QueueCalled =>
            \E t \in DOMAIN tasks :
              /\ tasks[t].st = "enqueue"
              /\ tasks'[t].st \in {"record", "revert"}
              /\ \A j \in DOMAIN jobs :
                   jobs'[j].calls # jobs[j].calls => j = tasks[t].job
        /\ \A t \in DOMAIN tasks :
             /\ (tasks[t].st = "user" /\ tasks'[t].st # "user") =>
                  \A env \in UserAnswers :
                    \/ ~MQ_FindUser(t, {env})
                    \/ IF env.user = "on"
                       THEN tasks'[t].st \in {"byid", "sysdefault"}
                       ELSE NotQueued(t)
             /\ (tasks[t].st = "update" /\ tasks'[t].st # "update") =>
                  \A env \in UpdateAnswers :
                    \/ ~MQ_Update(t, {env})
                    \/ tasks'[t].st = "enqueue" => env.upd
             /\ (tasks[t].st \in {"byid", "sysdefault", "list", "updrevert"}
                 /\ tasks'[t].st # tasks[t].st)
                  => tasks'[t].st # "enqueue"]_vars

\* the queue has been called once for a job, and has accepted it
C29_Witness ==
  \E j \in DOMAIN jobs :
    jobs[j].calls = 1 /\ jobs[j].queued /\ jobs[j].Status = "pending"

\* C30: a goroutine that holds Service.mu, for writing or for reading, is
\* about to access the runner and status maps or to release the lock: it
\* never holds the lock at runner.start, at runner.stop, at a call of the
\* folder, job, user or profile storage or of the job queue, or at a file
\* operation.  A writer holds the lock alone.
C30_LockOnlyForMaps ==
  /\ \A c \in Threads :
       Holds(c) => NextOp(c) \in {"maps", "Unlock", "RUnlock"}
  /\ \A c \in lk.writers : lk.writers = {c} /\ lk.readers = {}

\* one goroutine updates the maps under the lock while another one is
\* stopping a runner and a third one is copying a file
C30_Witness ==
  \E c, d, e \in Threads :
    /\ Holds(c) /\ NextOp(c) = "maps"
    /\ NextOp(d) = "runner.stop"
    /\ NextOp(e) = "copyFile"

\* thread c calls stop() on a runner whose stop signal is closed
SecondStop(c) ==
  /\ th[c].pc = "rs_check"
  /\ robj[th[c].rid].stopCh
  /\ th'[c] # th[c]

\* the second stop() returns at once and touches nothing of the runner
NoFurtherEffect(c) ==
  /\ th'[c].pc = th[c].sret
  /\ robj' = [robj EXCEPT ![th[c].rid].stopRet = TRUE]
  /\ tasks' = tasks
  /\ panicked' = panicked

\* a runner comes into being watching
BornWatching ==
  Len(robj') > Len(robj) =>
    /\ ~robj'[Len(robj')].stopCh
    /\ robj'[Len(robj')].watcherOpen
    /\ robj'[Len(robj')].loop # "exited"

\* Stopped is terminal for runner r, and only stop() leaves Watching
StoppedForGood(r) ==
  /\ robj[r].stopCh => robj'[r].stopCh
  /\ ~robj[r].watcherOpen => ~robj'[r].watcherOpen
  /\ robj[r].loop = "exited" => robj'[r].loop = "exited"
  /\ robj[r].watcherOpen /\ ~robj'[r].watcherOpen => robj[r].stopCh
  /\ robj'[r].loop = "exited" => robj[r].stopCh \/ ~robj[r].watcherOpen

\* C31: a runner moves only along Created -> Watching -> Stopped: it comes
\* into being watching, only stop() makes it leave Watching, a stopped
\* runner is never registered and never watches or runs again, and stop()
\* called on a stopped runner returns at once without closing the stop
\* signal or the watch handle again and without touching the timers.
C31_RunnerLifecycle ==
  /\ [](\A id \in DOMAIN runners : ~robj[runners[id]].stopCh)
  /\ [](~panicked)
  /\ [][/\ BornWatching
        /\ \A r \in RunnerIds : StoppedForGood(r)
        /\ \A c \in Threads : SecondStop(c) => NoFurtherEffect(c)]_vars

\* stop() has been called again on a stopped runner whose run loop had
\* scheduled a timer after the first stop(), and has returned
C31_Witness ==
  /\ th[2].op = "StopAgain"
  /\ th[2].pc = "idle"
  /\ robj[th[2].rid].stopRet
  /\ robj[th[2].rid].timers # EmptyMap

\* the folder ids the registry knows of
KnownIds == FolderIds \cup DOMAIN statuses \cup DOMAIN runners

\* C32: between the critical sections of the registry, the stored status of
\* every folder id is active exactly when a runner is registered for the id.
C32_ActiveIffRegistered ==
  \A id \in KnownIds : StatusOf(statuses, id).Active <=> id \in DOMAIN runners

\* every lifecycle call has returned
AllReturned == \A c \in Threads : th[c].pc = "idle"

\* the folder is persisted with enabled = true and the service is not stopped
MayBeWatched(id) ==
  /\ id \in DOMAIN folders
  /\ folders[id].Enabled
  /\ svc # "stopped"

\* C33: once all lifecycle calls have returned, a runner is registered for a
\* folder id only if the folder is persisted with enabled = true and the
\* service has not been stopped.
C33_RunnerOnlyIfEnabled ==
  AllReturned => \A id \in DOMAIN runners : MayBeWatched(id)

\* thread c is executing stop() of runner r
InStop(c, r) ==
  /\ th[c].pc \in {"rs_check", "rs_close", "rs_wclose", "rs_timers", "rs_wait"}
  /\ th[c].rid = r

\* the callers executing stop() of runner r
Stoppers(r) == {c \in Threads : InStop(c, r)}

\* thread c calls stop()
CallsStop(c) == th[c].pc # "rs_check" /\ th'[c].pc = "rs_check"

\* runner r is registered
IsRegistered(rs, r) == \E id \in DOMAIN rs : rs[id] = r

\* the caller of stop() is the stopRunner that takes the runner out of the
\* map in this step, or Stop, which took it out in its critical section, or
\* the startRunner that created the runner and lost the registration
OwnsRunner(c) ==
  LET r == th'[c].rid
  IN \/ /\ th[c].pc = "stopr"
        /\ th[c].fid \in DOMAIN runners
        /\ runners[th[c].fid] = r
        /\ ~IsRegistered(runners', r)
     \/ /\ c = Bootstrap
        /\ th[c].pc = "sp_loop"
        /\ ~IsRegistered(runners, r)
     \/ /\ th[c].pc = "sr_reg"
        /\ th[c].rid = r
        /\ ~IsRegistered(runners, r)
        /\ ~IsRegistered(runners', r)

\* C34: stop() of a runner is never executed by two callers: it is called
\* only on a runner whose stop signal is open and that no other caller is
\* stopping, by the stopRunner that takes the runner out of the map, by the
\* Stop that took it out, or by the startRunner that created it and lost the
\* registration; the stop signal is never closed twice.
C34_OneStopPerRunner ==
  /\ [](~panicked)
  /\ [](\A r \in RunnerIds : Cardinality(Stoppers(r)) <= 1)
  /\ [][\A c \in Threads :
          CallsStop(c) =>
            /\ ~robj[th'[c].rid].stopCh
            /\ Stoppers(th'[c].rid) = {}
            /\ OwnsRunner(c)]_vars

\* Stop is about to close the stop signal of a registered runner while a
\* request is about to close that of a runner that lost the registration
C34_Witness ==
  \E c \in AllCallers :
    /\ th[Bootstrap].pc = "rs_close"
    /\ th[c].pc = "rs_close"
    /\ th[c].op = "SetEnabled" /\ th[c].en
    /\ th[c].rid # th[Bootstrap].rid

====
